---- MODULE Spec2Model ----
(***************************************************************************)
(* A model of the cache-coordinated store of go-url-shortener: the         *)
(* URLService (create / resolve / record click), the CachedURLRepository   *)
(* over a PostgreSQL table and a Redis cache, and the Redis rate limiter.  *)
(* Every database call and every cache call is one atomic step, so the     *)
(* request goroutines interleave exactly where the code does I/O.          *)
(***************************************************************************)
EXTENDS Integers, Sequences, FiniteSets, TLC

(***************************************************************************)
(* Bounds of the model and constants of the program.                       *)
(***************************************************************************)
\* Number of request goroutines that run concurrently.
NumCallers == 2
\* Number of distinct short codes the generator can draw.
NumCodes == 2
\* Cap on the clicks recorded in one behaviour.
MaxClicks == 2
\* Cap on the clicks of the sequential scenario.
SeqClicks == 3
\* Cap on the clicks recorded over the failing cache.
FaultClicks == 1
\* Cap on the clicks recorded beside the batch flushes.
BatchClicks == 1
\* Cap on the clicks recorded before the counters are left to converge.
LiveClicks == 1
\* The last instant of the wall clock.
MaxTime == 2
\* maxRequests and window of the rate limiter, and the requests of a behaviour.
Limit == 2
Window == 2
MaxRequests == 4
\* The workers of the click worker pool and the AddJob calls of a behaviour.
NumWorkers == 1
MaxJobs == 12
\* The longest argument of a key, in characters.
MaxPartLen == 2
\* The client addresses seen by the in-process rate limiter.
NumClients == 2
\* The largest amount of a batch entry and the batch calls of a behaviour.
MaxIncrement == 1
MaxBatches == 1
\* The longest code asked of GenerateShortCodeWithLength.
MaxCodeLength == 4
\* Codes up to this length are drawn over every index of the alphabet;
\* longer ones over every DrawStride-th index and the last one.
ExhaustiveLength == 2
DrawStride == 11
\* utils.DefaultShortCodeLength
DefaultShortCodeLength == 6
\* The limit main passes to WarmupCache.
WarmupLimit == 100
\* The longest locator ValidateURL accepts.
MaxURLLength == 2048
\* URLService.maxRetries as set by NewURLService.
maxRetries == 5
\* The queue slots per worker: make(chan ClickJob, workers*10).
QueueFactor == 10

Callers == 1..NumCallers
Clients == 1..NumClients
\* The goroutines that run ClickWorkerPool.worker.
Workers == 1..NumWorkers
\* A short code is a number; 0 stands for the empty string.
Codes == 1..NumCodes
EmptyCode == 0

(***************************************************************************)
(* Locators are strings over an alphabet of pieces:                        *)
(*   "h"  the text "http://host" (scheme and host),                        *)
(*   "s"  the text "http://" (scheme, no host),                            *)
(*   "f"  the text "ftp://host" (another scheme, and host),                *)
(*   "p"  a path segment such as "/a",                                     *)
(*   "L"  a path segment of 2048 characters,                               *)
(*   " "  a space (0x20),                                                  *)
(*   "^"  a control character below 0x20 other than \t \n \r.              *)
(***************************************************************************)
RequestURLs ==
    { <<>>, <<"p">>, <<"h", "^">>, <<"h">>, <<"h", "p">>, <<"h", "p", " ">>,
      <<"s">>, <<"f">>, <<"h", "L">> }

RECURSIVE DropControl(_)
\* strings.Map of SanitizeInput: control characters are removed.
DropControl(s) ==
    IF s = <<>> THEN <<>>
    ELSE IF Head(s) = "^" THEN DropControl(Tail(s))
    ELSE <<Head(s)>> \o DropControl(Tail(s))

RECURSIVE TrimLeft(_)
TrimLeft(s) ==
    IF s # <<>> /\ Head(s) = " " THEN TrimLeft(Tail(s)) ELSE s

RECURSIVE TrimRight(_)
TrimRight(s) ==
    IF s # <<>> /\ s[Len(s)] = " " THEN TrimRight(SubSeq(s, 1, Len(s) - 1)) ELSE s

\* strings.TrimSpace
TrimSpace(s) == TrimRight(TrimLeft(s))

SanitizeInput(input) == TrimSpace(DropControl(input))

\* len(piece) in bytes.
Width(piece) ==
    CASE piece = "h" -> 11
      [] piece = "s" -> 7
      [] piece = "f" -> 10
      [] piece = "p" -> 2
      [] piece = "L" -> MaxURLLength
      [] OTHER -> 1

RECURSIVE StrLen(_)
\* len(rawURL)
StrLen(rawURL) ==
    IF rawURL = <<>> THEN 0 ELSE Width(Head(rawURL)) + StrLen(Tail(rawURL))

\* url.Parse(rawURL) fails: a control character anywhere, a space inside
\* the host, or "://" after the start.
ParseError(rawURL) ==
    \/ \E i \in 1..Len(rawURL) : rawURL[i] = "^"
    \/ /\ Len(rawURL) >= 2
       /\ rawURL[1] \in {"h", "s", "f"}
       /\ rawURL[2] \notin {"p", "L"}
    \/ \E i \in 2..Len(rawURL) : rawURL[i] \in {"h", "s", "f"}

\* parsedURL.Scheme and parsedURL.Host
Scheme(rawURL) ==
    IF rawURL = <<>> THEN ""
    ELSE IF Head(rawURL) \in {"h", "s"} THEN "http"
    ELSE IF Head(rawURL) = "f" THEN "ftp"
    ELSE ""

Host(rawURL) ==
    IF rawURL # <<>> /\ Head(rawURL) \in {"h", "f"} THEN "host" ELSE ""

\* A validation that lets every request through.
AcceptAll(rawURL) == TRUE

\* utils.ValidateURL(rawURL) returns nil.
ValidateURL(rawURL) ==
    /\ rawURL # <<>>
    /\ StrLen(rawURL) <= MaxURLLength
    /\ ~ParseError(rawURL)
    /\ Scheme(rawURL) \in {"http", "https"}
    /\ Host(rawURL) # ""

\* The locators that can reach the repository.
Locators == { SanitizeInput(l) : l \in { r \in RequestURLs : ValidateURL(r) } }

(***************************************************************************)
(* Errors.  Is is the set of sentinels errors.Is finds along the Unwrap    *)
(* chain; Code is the BusinessError code.                                  *)
(***************************************************************************)
NoError == [Type |-> "nil", Code |-> "", Is |-> {}]
ErrShortCodeExists == [Type |-> "error", Code |-> "", Is |-> {"ErrShortCodeExists"}]
\* A lookup that reports sql.ErrNoRows as a failure of the database.
NoRowsAsDatabaseError ==
    [Type |-> "BusinessError", Code |-> "DATABASE_ERROR", Is |-> {"ErrNoRows"}]
\* fmt.Errorf("...: %w", ErrURLNotFound)
ErrURLNotFound == [Type |-> "error", Code |-> "", Is |-> {"ErrURLNotFound"}]
\* A failure of the database driver (connection lost, timeout).
SqlError == [Type |-> "error", Code |-> "", Is |-> {"sql"}]
\* A failure of crypto/rand.
RandError == [Type |-> "error", Code |-> "", Is |-> {"rand"}]
CacheError == [Type |-> "CacheError", Code |-> "", Is |-> {"cache"}]
\* errors.New("cache miss")
ErrCacheMiss == [Type |-> "error", Code |-> "", Is |-> {"ErrCacheMiss"}]
NewValidationError == [Type |-> "ValidationError", Code |-> "", Is |-> {}]
NewBusinessError(code, cause) ==
    [Type |-> "BusinessError", Code |-> code, Is |-> cause.Is]

(***************************************************************************)
(* model.URL, its row in table urls, and its JSON form in the cache.       *)
(***************************************************************************)
NilURL ==
    [ID |-> 0, OriginalURL |-> <<>>, ShortCode |-> EmptyCode, ClickCount |-> 0,
     CreatedAt |-> 0]

\* A Scan that leaves the locator empty.
ScanBlank(row) ==
    [ID |-> row.id, OriginalURL |-> <<>>, ShortCode |-> row.short_code,
     ClickCount |-> row.click_count, CreatedAt |-> row.created_at]

\* A Scan that leaves the click count zero.
ScanNoClicks(row) ==
    [ID |-> row.id, OriginalURL |-> row.original_url, ShortCode |-> row.short_code,
     ClickCount |-> 0, CreatedAt |-> row.created_at]

\* rows.Scan(&url.ID, &url.OriginalURL, &url.ShortCode, &url.ClickCount, &url.CreatedAt)
Scan(row) ==
    [ID |-> row.id, OriginalURL |-> row.original_url, ShortCode |-> row.short_code,
     ClickCount |-> row.click_count, CreatedAt |-> row.created_at]

\* A serialisation that loses the locator (a wrong json tag).
MarshalBlank(u) ==
    [id |-> u.ID, original_url |-> <<>>, short_code |-> u.ShortCode,
     click_count |-> u.ClickCount, created_at |-> u.CreatedAt]

\* json.Marshal(url), by the struct's json tags.
Marshal(u) ==
    [id |-> u.ID, original_url |-> u.OriginalURL, short_code |-> u.ShortCode,
     click_count |-> u.ClickCount, created_at |-> u.CreatedAt]

\* json.Unmarshal(data, &cachedURL)
Unmarshal(j) ==
    [ID |-> j.id, OriginalURL |-> j.original_url, ShortCode |-> j.short_code,
     ClickCount |-> j.click_count, CreatedAt |-> j.created_at]

VARIABLES
    urls,         \* table urls: a set of rows
    nextId,       \* the BIGSERIAL sequence of urls.id
    cacheURL,     \* Redis keys url:<code>: {} or one JSON value
    cacheRev,     \* Redis keys short:<md5(locator)>: {} or one short code
    cacheClicks,  \* Redis keys clicks:<code>: {} or one count
    now,          \* the wall clock
    frame,        \* per request goroutine: its position and its local variables
    res,          \* per request goroutine: what its last finished call returned
    created,      \* per short code: the request URLs whose create returned it
    recorded,     \* per short code: the RecordClick calls that returned nil
    rlCount,      \* Redis key rate_limit:<client>: {} or one count
    rlTTL,        \* the instant that key expires at: {} (no expiry) or one instant
    rlFrame,      \* per request goroutine: its position in the rate limiter
    rlStart,      \* the instant the live counter was created at
    rlServed,     \* the requests that entered the rate limiter
    jobQueue,     \* ClickWorkerPool.jobQueue: the short codes of the buffered jobs
    queueClosed,  \* close(p.jobQueue) has run
    poolDone,     \* p.cancel() has run: p.ctx.Done() is closed
    shutdownPc,   \* the position of ClickWorkerPool.Shutdown
    workerUp,     \* per worker: its goroutine has not returned
    crashed,      \* the process died of a panic in a worker goroutine
    offered,      \* the AddJob calls made
    dropped,      \* the "Click queue is full" lines in the log
    faulted,      \* the AddJob calls that panicked
    handler,      \* per request goroutine: its position in RedirectURL and its response
    batch,        \* the goroutine that runs BatchIncrementClickCount
    batches,      \* the BatchIncrementClickCount calls made
    nullCall,     \* the last call made on the NullCache and what it returned
    nullWritten,  \* the keys a write of the NullCache was given and no Delete since
    warmup,       \* the goroutine main starts to run WarmupCache
    gen,          \* the goroutine that calls the short code generator
    built,        \* the KeyBuilder in use and the last two keys it built
    mem           \* InMemoryRateLimitMiddleware: its map and its request goroutines

storeVars == <<urls, nextId, cacheURL, cacheRev, cacheClicks>>
rlVars == <<rlCount, rlTTL, rlFrame, rlStart, rlServed>>
poolVars == <<jobQueue, queueClosed, poolDone, shutdownPc, workerUp, crashed,
              offered, dropped, faulted, handler>>
\* The state of the components beside the request path.
sideVars == <<batch, batches, nullCall, nullWritten, warmup, gen, built, mem>>
vars == <<urls, nextId, cacheURL, cacheRev, cacheClicks, now, frame, res, created,
          recorded, rlCount, rlTTL, rlFrame, rlStart, rlServed, jobQueue,
          queueClosed, poolDone, shutdownPc, workerUp, crashed, offered, dropped,
          faulted, handler, batch, batches, nullCall, nullWritten, warmup, gen,
          built, mem>>

(***************************************************************************)
(* The table urls (short_code is UNIQUE) and the statements run on it.     *)
(***************************************************************************)
NewRow(u, id) ==
    [id |-> id, original_url |-> u.OriginalURL, short_code |-> u.ShortCode,
     click_count |-> 0, created_at |-> u.CreatedAt]

\* An arbiter that never sees a conflict (a table without the UNIQUE index).
NeverConflict(table, code) == FALSE

\* The arbiter of ON CONFLICT (short_code): a row with this code exists.
ShortCodeConflict(table, code) == \E row \in table : row.short_code = code

\* INSERT INTO urls ... ON CONFLICT (short_code) DO NOTHING
InsertDoNothing(table, u, id) ==
    IF ShortCodeConflict(table, u.ShortCode) THEN table ELSE table \cup {NewRow(u, id)}

\* A lookup without its WHERE clause.
SelectAnyRow(table, code) == table

\* SELECT ... FROM urls WHERE short_code = $1
SelectByShortCode(table, code) == { row \in table : row.short_code = code }

\* SELECT ... WHERE original_url = $1 ORDER BY created_at DESC LIMIT 1
\* (rows with the same created_at come in any order).
SelectByOriginalURL(table, l) ==
    { row \in table :
        /\ row.original_url = l
        /\ \A other \in table :
             other.original_url = l => other.created_at <= row.created_at }

\* An UPDATE that matches the row and changes nothing.
UpdateNothing(table, id) == table

\* UPDATE urls SET click_count = click_count + 1 WHERE id = $1
UpdateClickCount(table, id) ==
    { IF row.id = id THEN [row EXCEPT !.click_count = @ + 1] ELSE row : row \in table }

\* A database call returns, or fails in the driver.
DbOutcomes == {"ok", "error"}

\* A driver failure reported as if the short code were taken.
FailureAsConflict == ErrShortCodeExists

DatabaseError == NewBusinessError("DATABASE_ERROR", SqlError)

(***************************************************************************)
(* The cache calls.  backend says what the repository talks to: "redis", a *)
(* Redis that answers every call; "flaky", a Redis any call of which can   *)
(* fail; "null", the NullCache.  A read hits, misses or fails; a write is  *)
(* applied ("ok"), fails, or returns nil without storing ("noop").         *)
(***************************************************************************)
\* A cache whose reads never find anything.
AlwaysMiss(entry, backend) == {"miss"}

ReadOutcomes(entry, backend) ==
    IF backend = "null" THEN {"miss"}
    ELSE (IF entry # {} THEN {"hit"} ELSE {"miss"})
         \cup (IF backend = "flaky" THEN {"error"} ELSE {})

\* A NullCache that stores what it is given.
WriteStored(backend) == {"ok"}

WriteOutcomes(backend) ==
    IF backend = "null" THEN {"noop"}
    ELSE {"ok"} \cup (IF backend = "flaky" THEN {"error"} ELSE {})

TheValue(entry) == CHOOSE v \in entry : TRUE

(***************************************************************************)
(* A request goroutine of the service.                                     *)
(***************************************************************************)
IdleFrame ==
    [pc |-> "idle", op |-> "none", reqURL |-> <<>>, shortCode |-> EmptyCode,
     sanitizedURL |-> <<>>, attempt |-> 0, lastErr |-> NoError, url |-> NilURL,
     retCode |-> EmptyCode, newCount |-> 0,
     \* history of the running call
     allConflict |-> TRUE, wrote |-> FALSE, cacheFailed |-> FALSE, revHit |-> FALSE,
     floor |-> -1, uncached |-> {}, afterClick |-> "no", newestAt |-> -1]

NoResult ==
    [Op |-> "none", Arg |-> EmptyCode, Err |-> NoError, URL |-> NilURL,
     Exists |-> FALSE, CacheFailed |-> FALSE, RevHit |-> FALSE, Floor |-> -1,
     Plain |-> TRUE]

\* What a call hands back: the error and the record (NilURL with an error),
\* or the error and the bool of ExistsByShortCode.
Outcome(err, u) == [Err |-> err, URL |-> u, Exists |-> FALSE]
Answer(err, exists) == [Err |-> err, URL |-> NilURL, Exists |-> exists]

\* The rate limiter's goroutine before its first request.
IdleLimiter == [pc |-> "idle", count |-> 0, err |-> FALSE, elapsed |-> FALSE,
                decision |-> "none"]

\* utils.alphabet, one symbol per element.
alphabet ==
    << "a", "b", "c", "d", "e", "f", "g", "h", "i", "j", "k", "m",
       "n", "p", "q", "r", "s", "t", "u", "v", "w", "x", "y", "z",
       "A", "B", "C", "D", "E", "F", "G", "H", "J", "K", "L", "M",
       "N", "P", "Q", "R", "S", "T", "U", "V", "W", "X", "Y", "Z",
       "2", "3", "4", "5", "6", "7", "8", "9" >>

\* The zero byte of a fresh byte slice.
Nul == "NUL"

\* The generator goroutine outside a call.
IdleGen ==
    [pc |-> "idle", fn |-> "none", length |-> 0, code |-> <<>>, i |-> 0,
     out |-> <<>>, err |-> NoError]

\* A request goroutine outside RedirectURL; status, location and job are
\* the response of its last redirect request and what became of the click
\* job of that request.
IdleHandler ==
    [pc |-> "idle", shortCode |-> EmptyCode, status |-> 0, location |-> <<>>,
     job |-> "none"]

\* No key built yet and no KeyBuilder made; a key is kept with the method
\* that built it and the argument it was built from.
NoKey == [method |-> "none", arg |-> <<>>, key |-> <<>>]
NoBuilder == [made |-> FALSE, namespace |-> <<>>, keys |-> <<NoKey, NoKey>>]

\* A request goroutine outside InMemoryRateLimitMiddleware: status is the
\* answer to its last request (200 when c.Next() ran), times its local
\* slice.
IdleMemLimiter == [pc |-> "idle", clientIP |-> 0, now |-> 0, times |-> <<>>, status |-> 0]

\* The middleware as main installs it: requests is the empty map, admitted
\* the instants of the requests let through per client, fatal the runtime's
\* "concurrent map writes" (or "concurrent map read and map write") error.
NoLimiter ==
    [requests |-> <<>>, frames |-> [g \in Callers |-> IdleMemLimiter],
     admitted |-> [c \in Clients |-> <<>>], served |-> 0, fatal |-> FALSE]

\* The batch goroutine outside a call; err is what its last call returned.
IdleBatch ==
    [pc |-> "idle", updates |-> <<>>, todo |-> {}, matched |-> {}, err |-> NoError]

\* No call on the NullCache yet.  keys are the keys of the call, dest is
\* the variable a Get decodes into.
NoCall ==
    [op |-> "none", keys |-> {}, err |-> NoError, exists |-> FALSE, str |-> "",
     dest |-> "zero"]

Init ==
    /\ urls = {}
    /\ nextId = 1
    /\ cacheURL = [c \in Codes |-> {}]
    /\ cacheRev = [l \in Locators |-> {}]
    /\ cacheClicks = [c \in Codes |-> {}]
    /\ now = 0
    /\ frame = [p \in Callers |-> IdleFrame]
    /\ res = [p \in Callers |-> NoResult]
    /\ created = [c \in Codes |-> {}]
    /\ recorded = [c \in Codes |-> 0]
    /\ rlCount = {}
    /\ rlTTL = {}
    /\ rlFrame = [p \in Callers |-> IdleLimiter]
    /\ rlStart = {}
    /\ rlServed = 0
    /\ jobQueue = <<>>
    /\ queueClosed = FALSE
    /\ poolDone = FALSE
    /\ shutdownPc = "none"
    /\ workerUp = [w \in Workers |-> TRUE]
    /\ crashed = FALSE
    /\ offered = 0
    /\ dropped = 0
    /\ faulted = 0
    /\ handler = [p \in Callers |-> IdleHandler]
    /\ batch = IdleBatch
    /\ batches = 0
    /\ nullCall = NoCall
    /\ nullWritten = {}
    /\ warmup = [pc |-> "query", rows |-> {}, fetched |-> 0]
    /\ gen = IdleGen
    /\ built = NoBuilder
    /\ mem = NoLimiter

\* The call of goroutine p returns err and u; f is its frame at that point.
Return(p, f, err, u) ==
    /\ frame' = [frame EXCEPT ![p] = IdleFrame]
    /\ res' = [res EXCEPT ![p] =
                 [Op |-> f.op, Arg |-> f.shortCode, Err |-> err, URL |-> u,
                  Exists |-> FALSE,
                  CacheFailed |-> f.cacheFailed, RevHit |-> f.revHit,
                  Floor |-> f.floor,
                  Plain |-> f.uncached = {} \/ Outcome(err, u) \in f.uncached]]
    /\ created' = IF f.op = "create" /\ err = NoError
                  THEN [created EXCEPT ![u.ShortCode] = @ \cup {f.reqURL}]
                  ELSE created
    /\ recorded' = IF f.op = "record" /\ err = NoError
                   THEN [recorded EXCEPT ![f.shortCode] = @ + 1]
                   ELSE recorded

\* ExistsByShortCode of goroutine p returns (exists, err).
ReturnExists(p, f, err, exists) ==
    /\ frame' = [frame EXCEPT ![p] = IdleFrame]
    /\ res' = [res EXCEPT ![p] =
                 [Op |-> f.op, Arg |-> f.shortCode, Err |-> err, URL |-> NilURL,
                  Exists |-> exists,
                  CacheFailed |-> f.cacheFailed, RevHit |-> f.revHit,
                  Floor |-> f.floor,
                  Plain |-> f.uncached = {} \/ Answer(err, exists) \in f.uncached]]
    /\ UNCHANGED <<created, recorded>>

\* The call of goroutine p goes on with frame f.
Goto(p, f) ==
    /\ frame' = [frame EXCEPT ![p] = f]
    /\ UNCHANGED <<res, created, recorded>>

\* A cache write that was applied (o = "ok") or failed, noted in frame f.
Wrote(f, o) ==
    [f EXCEPT !.wrote = @ \/ o = "ok", !.cacheFailed = @ \/ o = "error"]

(***************************************************************************)
(* URLService.CreateShortURL over CachedURLRepository.Create.              *)
(***************************************************************************)
\* An exhausted loop that hands its last error back unwrapped.
BareCause(cause) == cause

GenerationError(cause) == NewBusinessError("SHORT_CODE_GENERATION", cause)

\* A loop that gives up at the first `continue`.
GiveUp(p, f, err) ==
    Return(p, [f EXCEPT !.attempt = @ + 1, !.lastErr = err],
           GenerationError(err), NilURL)

\* The loop head after an iteration ended in `continue` with lastErr = err:
\* attempt++ and either the next iteration or the error after the loop.
NextAttempt(p, f, err) ==
    LET g == [f EXCEPT !.attempt = @ + 1, !.lastErr = err, !.url = NilURL,
                       !.shortCode = EmptyCode]
    IN  IF g.attempt < maxRetries
        THEN Goto(p, [g EXCEPT !.pc = "generate"])
        ELSE Return(p, g, GenerationError(err), NilURL)

\* ValidateURL, SanitizeInput and the entry of the retry loop.
CreateShortURL(p, rawURL) ==
    /\ frame[p].pc = "idle"
    /\ LET f == [IdleFrame EXCEPT !.op = "create", !.reqURL = rawURL]
       IN  IF ~ValidateURL(rawURL)
           THEN Return(p, f, NewValidationError, NilURL)
           ELSE /\ frame' = [frame EXCEPT ![p] =
                               [f EXCEPT !.pc = "generate",
                                         !.sanitizedURL = SanitizeInput(rawURL)]]
                /\ res' = [res EXCEPT ![p] = NoResult]
                /\ UNCHANGED <<created, recorded>>
    /\ UNCHANGED <<storeVars, now, rlVars, sideVars, poolVars>>

\* utils.GenerateShortCode() and the construction of the model.URL.
GenerateShortCode(p) ==
    /\ frame[p].pc = "generate"
    /\ \E o \in {"ok", "error"}, code \in Codes :
         IF o = "error"
         THEN NextAttempt(p, [frame[p] EXCEPT !.allConflict = FALSE], RandError)
         ELSE Goto(p, [frame[p] EXCEPT
                         !.pc = "insert", !.shortCode = code,
                         !.url = [ID |-> 0, OriginalURL |-> frame[p].sanitizedURL,
                                  ShortCode |-> code, ClickCount |-> 0,
                                  CreatedAt |-> now]])
    /\ UNCHANGED <<storeVars, now, rlVars, sideVars, poolVars>>

\* CachedURLRepository.Create up to the check of the statement's result.
RepoCreateInsert(p) ==
    /\ frame[p].pc = "insert"
    /\ LET f == frame[p] IN
       \E o \in DbOutcomes :
         IF o = "error"
         THEN /\ Return(p, [f EXCEPT !.uncached = {Outcome(DatabaseError, NilURL)}],
                        DatabaseError, NilURL)
              /\ UNCHANGED <<urls, nextId>>
         ELSE /\ urls' = InsertDoNothing(urls, f.url, nextId)
              /\ IF urls' = urls
                 THEN \* sql.ErrNoRows: no row was returned
                      /\ NextAttempt(p, [f EXCEPT !.uncached = {}], ErrShortCodeExists)
                      /\ UNCHANGED nextId
                 ELSE /\ nextId' = nextId + 1
                      /\ LET u == [f.url EXCEPT !.ID = nextId] IN
                         Goto(p, [f EXCEPT !.pc = "createSetURL", !.url = u,
                                           !.wrote = TRUE,
                                           !.uncached = {Outcome(NoError, u)}])
    /\ UNCHANGED <<cacheURL, cacheRev, cacheClicks, now, rlVars, sideVars, poolVars>>

\* r.cache.Set(ctx, CacheKeys.URL(url.ShortCode), url)
RepoCreateSetURL(p, backend) ==
    /\ frame[p].pc = "createSetURL"
    /\ LET f == frame[p] IN
       \E o \in WriteOutcomes(backend) :
         /\ cacheURL' = IF o = "ok"
                        THEN [cacheURL EXCEPT ![f.url.ShortCode] = {Marshal(f.url)}]
                        ELSE cacheURL
         /\ Goto(p, [Wrote(f, o) EXCEPT !.pc = "createSetRev"])
    /\ UNCHANGED <<urls, nextId, cacheRev, cacheClicks, now, rlVars, sideVars, poolVars>>

\* r.cache.SetString(ctx, CacheKeys.ShortCode(url.OriginalURL), url.ShortCode),
\* then Create and CreateShortURL return.
RepoCreateSetRev(p, backend) ==
    /\ frame[p].pc = "createSetRev"
    /\ LET f == frame[p] IN
       \E o \in WriteOutcomes(backend) :
         /\ cacheRev' = IF o = "ok"
                        THEN [cacheRev EXCEPT ![f.url.OriginalURL] = {f.url.ShortCode}]
                        ELSE cacheRev
         /\ Return(p, Wrote(f, o), NoError, f.url)
    /\ UNCHANGED <<urls, nextId, cacheURL, cacheClicks, now, rlVars, sideVars, poolVars>>

(***************************************************************************)
(* CachedURLRepository.GetByShortCode, called by GetURL / GetOriginalURL   *)
(* (op "resolve"), by RecordClick (op "record") and by GetByOriginalURL    *)
(* on a reverse-index hit (op "find").                                     *)
(***************************************************************************)
\* A GetByShortCode that hands a failure of the cache to its caller.
GetReturnStrict(p, f, err, u) ==
    IF f.cacheFailed THEN Return(p, f, CacheError, NilURL)
    ELSE IF err # NoError THEN Return(p, f, err, NilURL)
    ELSE IF f.op = "record" THEN Goto(p, [f EXCEPT !.pc = "increment", !.url = u])
    ELSE Return(p, f, NoError, u)

\* GetByShortCode returns (u, err) to its caller.
GetReturn(p, f, err, u) ==
    IF err # NoError THEN Return(p, f, err, NilURL)
    ELSE IF f.op = "record" THEN Goto(p, [f EXCEPT !.pc = "increment", !.url = u])
    ELSE Return(p, f, NoError, u)

\* What the repository without a cache answers to the same request on the
\* same table with the same driver outcome.
PlainGet(table, code, o) ==
    IF o = "error" THEN {Outcome(DatabaseError, NilURL)}
    ELSE IF SelectByShortCode(table, code) = {} THEN {Outcome(ErrURLNotFound, NilURL)}
    ELSE {Outcome(NoError, Scan(row)) : row \in SelectByShortCode(table, code)}

\* PostgresURLRepository.ExistsByShortCode
PlainExists(table, code, o) ==
    IF o = "error" THEN {Answer(DatabaseError, FALSE)}
    ELSE {Answer(NoError, SelectByShortCode(table, code) # {})}

\* PostgresURLRepository.Create: the table it leaves and what it returns.
PlainCreate(table, u, id, o) ==
    IF o = "error" THEN [table |-> table, out |-> Outcome(DatabaseError, NilURL)]
    ELSE IF InsertDoNothing(table, u, id) = table
    THEN [table |-> table, out |-> Outcome(ErrShortCodeExists, NilURL)]
    ELSE [table |-> InsertDoNothing(table, u, id),
          out |-> Outcome(NoError, [u EXCEPT !.ID = id])]

\* PostgresURLRepository.IncrementClickCount (RowsAffected of the driver
\* does not fail).
PlainIncrement(table, id, o) ==
    IF o = "error" THEN [table |-> table, out |-> Outcome(DatabaseError, NilURL)]
    ELSE IF ~\E row \in table : row.id = id
    THEN [table |-> table, out |-> Outcome(ErrURLNotFound, NilURL)]
    ELSE [table |-> UpdateClickCount(table, id), out |-> Outcome(NoError, NilURL)]

PlainFind(table, l, o) ==
    IF o = "error" THEN {Outcome(DatabaseError, NilURL)}
    ELSE IF SelectByOriginalURL(table, l) = {} THEN {Outcome(ErrURLNotFound, NilURL)}
    ELSE {Outcome(NoError, Scan(row)) : row \in SelectByOriginalURL(table, l)}

\* URLService.GetURL / GetOriginalURL: the empty code is refused.
EnterGetURL(p, code) ==
    /\ frame[p].pc = "idle"
    /\ LET f == [IdleFrame EXCEPT
                   !.op = "resolve", !.shortCode = code,
                   !.floor = IF /\ res[p].Op = "record" /\ res[p].Err = NoError
                                /\ res[p].Arg = code
                             THEN res[p].Floor ELSE -1,
                   \* the call before this one was a RecordClick of the
                   \* same code that returned nil: "clean" if none of its
                   \* cache calls failed, "failed" otherwise
                   !.afterClick =
                      IF /\ res[p].Op = "record" /\ res[p].Err = NoError
                         /\ res[p].Arg = code /\ code # EmptyCode
                      THEN (IF res[p].CacheFailed THEN "failed" ELSE "clean")
                      ELSE "no"]
       IN  IF code = EmptyCode
           THEN Return(p, f, NewValidationError, NilURL)
           ELSE /\ frame' = [frame EXCEPT ![p] = [f EXCEPT !.pc = "getCache"]]
                /\ res' = [res EXCEPT ![p] = NoResult]
                /\ UNCHANGED <<created, recorded>>

\* GetURL / GetOriginalURL called by a request goroutine.
GetURL(p, code) ==
    /\ EnterGetURL(p, code)
    /\ UNCHANGED <<storeVars, now, rlVars, sideVars, poolVars>>

\* r.cache.Get(ctx, CacheKeys.URL(shortCode), &cachedURL)
RepoGetCache(p, backend) ==
    /\ frame[p].pc = "getCache"
    /\ LET f == frame[p] IN
       \E o \in ReadOutcomes(cacheURL[f.shortCode], backend) :
         IF o = "hit"
         THEN GetReturn(p, f, NoError, Unmarshal(TheValue(cacheURL[f.shortCode])))
         ELSE Goto(p, [f EXCEPT !.pc = "getDb", !.cacheFailed = @ \/ o = "error"])
    /\ UNCHANGED <<storeVars, now, rlVars, sideVars, poolVars>>

\* SELECT ... WHERE short_code = $1
RepoGetDb(p) ==
    /\ frame[p].pc = "getDb"
    /\ LET f == frame[p] IN
       \E o \in DbOutcomes :
         LET g == [f EXCEPT !.uncached =
                      IF f.op = "find" THEN PlainFind(urls, f.sanitizedURL, o)
                      ELSE PlainGet(urls, f.shortCode, o)]
         IN  IF o = "error" THEN GetReturn(p, g, DatabaseError, NilURL)
             ELSE IF SelectByShortCode(urls, f.shortCode) = {}
             THEN GetReturn(p, g, ErrURLNotFound, NilURL)
             ELSE \E row \in SelectByShortCode(urls, f.shortCode) :
                    Goto(p, [g EXCEPT !.pc = "getSetURL", !.url = Scan(row)])
    /\ UNCHANGED <<storeVars, now, rlVars, sideVars, poolVars>>

\* r.cache.Set(ctx, cacheKey, url)
RepoGetSetURL(p, backend) ==
    /\ frame[p].pc = "getSetURL"
    /\ LET f == frame[p] IN
       \E o \in WriteOutcomes(backend) :
         /\ cacheURL' = IF o = "ok"
                        THEN [cacheURL EXCEPT ![f.shortCode] = {Marshal(f.url)}]
                        ELSE cacheURL
         /\ Goto(p, [Wrote(f, o) EXCEPT !.pc = "getSetClicks"])
    /\ UNCHANGED <<urls, nextId, cacheRev, cacheClicks, now, rlVars, sideVars, poolVars>>

\* r.cache.SetClickCount(ctx, shortCode, url.ClickCount), then return url.
RepoGetSetClicks(p, backend) ==
    /\ frame[p].pc = "getSetClicks"
    /\ LET f == frame[p] IN
       \E o \in WriteOutcomes(backend) :
         /\ cacheClicks' = IF o = "ok"
                           THEN [cacheClicks EXCEPT ![f.shortCode] = {f.url.ClickCount}]
                           ELSE cacheClicks
         /\ GetReturn(p, Wrote(f, o), NoError, f.url)
    /\ UNCHANGED <<urls, nextId, cacheURL, cacheRev, now, rlVars, sideVars, poolVars>>

(***************************************************************************)
(* CachedURLRepository.ExistsByShortCode, called on the repository.        *)
(***************************************************************************)
ExistsByShortCode(p, code) ==
    /\ frame[p].pc = "idle"
    /\ frame' = [frame EXCEPT ![p] =
                   [IdleFrame EXCEPT !.op = "exists", !.pc = "existsCache",
                                     !.shortCode = code]]
    /\ res' = [res EXCEPT ![p] = NoResult]
    /\ UNCHANGED <<created, recorded, storeVars, now, rlVars, sideVars, poolVars>>

\* r.cache.Exists(ctx, CacheKeys.URL(shortCode)): true is returned at once,
\* false or an error goes on to the table.
RepoExistsCache(p, backend) ==
    /\ frame[p].pc = "existsCache"
    /\ LET f == frame[p] IN
       \E o \in ReadOutcomes(cacheURL[f.shortCode], backend) :
         IF o = "hit"
         THEN ReturnExists(p, f, NoError, TRUE)
         ELSE Goto(p, [f EXCEPT !.pc = "existsDb", !.cacheFailed = @ \/ o = "error"])
    /\ UNCHANGED <<storeVars, now, rlVars, sideVars, poolVars>>

\* SELECT EXISTS(SELECT 1 FROM urls WHERE short_code = $1)
RepoExistsDb(p) ==
    /\ frame[p].pc = "existsDb"
    /\ LET f == frame[p] IN
       \E o \in DbOutcomes :
         LET g == [f EXCEPT !.uncached = PlainExists(urls, f.shortCode, o)]
         IN  IF o = "error" THEN ReturnExists(p, g, DatabaseError, FALSE)
             ELSE ReturnExists(p, g, NoError, SelectByShortCode(urls, f.shortCode) # {})
    /\ UNCHANGED <<storeVars, now, rlVars, sideVars, poolVars>>

(***************************************************************************)
(* URLService.RecordClick over CachedURLRepository.IncrementClickCount.    *)
(***************************************************************************)
RECURSIVE SumClicks(_)
SumClicks(table) ==
    IF table = {} THEN 0
    ELSE LET row == CHOOSE r \in table : TRUE
         IN  row.click_count + SumClicks(table \ {row})

\* Clicks stored plus clicks on their way.
ClicksInPlay ==
    SumClicks(urls) + Cardinality({q \in Callers : frame[q].op = "record"})

\* The entry of RecordClick in goroutine p: the empty code is refused, else
\* GetByShortCode runs first.
EnterRecordClick(p, code) ==
    LET f == [IdleFrame EXCEPT
                !.op = "record", !.shortCode = code,
                !.floor = IF /\ res[p].Op = "resolve" /\ res[p].Err = NoError
                             /\ res[p].Arg = code
                          THEN res[p].URL.ClickCount ELSE -1]
    IN  IF code = EmptyCode
        THEN Return(p, f, NewValidationError, NilURL)
        ELSE /\ frame' = [frame EXCEPT ![p] = [f EXCEPT !.pc = "getCache"]]
             /\ res' = [res EXCEPT ![p] = NoResult]
             /\ UNCHANGED <<created, recorded>>

\* URLService.RecordClick called by a request goroutine; cap bounds the
\* clicks of a behaviour.
RecordClick(p, code, cap) ==
    /\ frame[p].pc = "idle"
    /\ ClicksInPlay < cap
    /\ EnterRecordClick(p, code)
    /\ UNCHANGED <<storeVars, now, rlVars, sideVars, poolVars>>

\* UPDATE urls SET click_count = click_count + 1 WHERE id = $1
\* RETURNING short_code, click_count
RepoIncrementDb(p) ==
    /\ frame[p].pc = "increment"
    /\ LET f == frame[p] IN
       \E o \in DbOutcomes :
         IF o = "error"
         THEN /\ Return(p, [f EXCEPT !.uncached = {Outcome(DatabaseError, NilURL)}],
                        DatabaseError, NilURL)
              /\ UNCHANGED urls
         ELSE IF ~\E row \in urls : row.id = f.url.ID
         THEN /\ Return(p, [f EXCEPT !.uncached = {Outcome(ErrURLNotFound, NilURL)}],
                        ErrURLNotFound, NilURL)
              /\ UNCHANGED urls
         ELSE /\ urls' = UpdateClickCount(urls, f.url.ID)
              /\ \E row \in urls' :
                   /\ row.id = f.url.ID
                   /\ Goto(p, [f EXCEPT !.pc = "incrSetClicks",
                                        !.retCode = row.short_code,
                                        !.newCount = row.click_count,
                                        !.wrote = TRUE,
                                        !.uncached = {Outcome(NoError, NilURL)}])
    /\ UNCHANGED <<nextId, cacheURL, cacheRev, cacheClicks, now, rlVars, sideVars, poolVars>>

\* r.cache.SetClickCount(ctx, shortCode, newCount)
RepoIncrSetClicks(p, backend) ==
    /\ frame[p].pc = "incrSetClicks"
    /\ LET f == frame[p] IN
       \E o \in WriteOutcomes(backend) :
         /\ cacheClicks' = IF o = "ok"
                           THEN [cacheClicks EXCEPT ![f.retCode] = {f.newCount}]
                           ELSE cacheClicks
         /\ Goto(p, [Wrote(f, o) EXCEPT !.pc = "incrDelete"])
    /\ UNCHANGED <<urls, nextId, cacheURL, cacheRev, now, rlVars, sideVars, poolVars>>

\* An IncrementClickCount that leaves the mapping entry in the cache.
KeepURL(cache, code) == cache

\* The invalidation of the mapping entry.
InvalidateURL(cache, code) == [cache EXCEPT ![code] = {}]

\* r.cache.Delete(ctx, CacheKeys.URL(shortCode)), then return nil.
RepoIncrDelete(p, backend) ==
    /\ frame[p].pc = "incrDelete"
    /\ LET f == frame[p] IN
       \E o \in WriteOutcomes(backend) :
         /\ cacheURL' = IF o = "ok" THEN InvalidateURL(cacheURL, f.retCode)
                        ELSE cacheURL
         /\ Return(p, Wrote(f, o), NoError, NilURL)
    /\ UNCHANGED <<urls, nextId, cacheRev, cacheClicks, now, rlVars, sideVars, poolVars>>

(***************************************************************************)
(* CachedURLRepository.GetByOriginalURL.                                   *)
(***************************************************************************)
\* The reverse index is keyed by the locator itself: hashURL (md5) is taken
\* to be free of collisions.
GetByOriginalURL(p, originalURL) ==
    /\ frame[p].pc = "idle"
    /\ frame' = [frame EXCEPT ![p] =
                   [IdleFrame EXCEPT
                      !.op = "find", !.pc = "findCache",
                      !.sanitizedURL = originalURL,
                      \* created_at of the newest record of the locator
                      \* whose create has returned by the time of the call,
                      \* -1 if there is none
                      !.newestAt =
                         LET done == { row \in urls :
                                         created[row.short_code] # {} }
                         IN  IF \E row \in done : row.original_url = originalURL
                             THEN CHOOSE t \in 0..MaxTime :
                                    \E row \in SelectByOriginalURL(done, originalURL) :
                                      row.created_at = t
                             ELSE -1]]
    /\ res' = [res EXCEPT ![p] = NoResult]
    /\ UNCHANGED <<created, recorded, storeVars, now, rlVars, sideVars, poolVars>>

\* r.cache.GetString(ctx, CacheKeys.ShortCode(originalURL)); on a hit the
\* call is GetByShortCode(ctx, shortCode).
RepoFindCache(p, backend) ==
    /\ frame[p].pc = "findCache"
    /\ LET f == frame[p] IN
       \E o \in ReadOutcomes(cacheRev[f.sanitizedURL], backend) :
         IF o = "hit" /\ TheValue(cacheRev[f.sanitizedURL]) # EmptyCode
         THEN Goto(p, [f EXCEPT !.pc = "getCache", !.revHit = TRUE,
                                !.shortCode = TheValue(cacheRev[f.sanitizedURL])])
         ELSE Goto(p, [f EXCEPT !.pc = "findDb", !.cacheFailed = @ \/ o = "error"])
    /\ UNCHANGED <<storeVars, now, rlVars, sideVars, poolVars>>

\* SELECT ... WHERE original_url = $1 ORDER BY created_at DESC LIMIT 1
RepoFindDb(p) ==
    /\ frame[p].pc = "findDb"
    /\ LET f == frame[p] IN
       \E o \in DbOutcomes :
         LET g == [f EXCEPT !.uncached = PlainFind(urls, f.sanitizedURL, o)]
         IN  IF o = "error" THEN Return(p, g, DatabaseError, NilURL)
             ELSE IF SelectByOriginalURL(urls, f.sanitizedURL) = {}
             THEN Return(p, g, ErrURLNotFound, NilURL)
             ELSE \E row \in SelectByOriginalURL(urls, f.sanitizedURL) :
                    Goto(p, [g EXCEPT !.pc = "findSetRev", !.url = Scan(row)])
    /\ UNCHANGED <<storeVars, now, rlVars, sideVars, poolVars>>

\* r.cache.SetString(ctx, reverseCacheKey, url.ShortCode)
RepoFindSetRev(p, backend) ==
    /\ frame[p].pc = "findSetRev"
    /\ LET f == frame[p] IN
       \E o \in WriteOutcomes(backend) :
         /\ cacheRev' = IF o = "ok"
                        THEN [cacheRev EXCEPT ![f.sanitizedURL] = {f.url.ShortCode}]
                        ELSE cacheRev
         /\ Goto(p, [Wrote(f, o) EXCEPT !.pc = "findSetURL"])
    /\ UNCHANGED <<urls, nextId, cacheURL, cacheClicks, now, rlVars, sideVars, poolVars>>

\* r.cache.Set(ctx, CacheKeys.URL(url.ShortCode), url), then return url.
RepoFindSetURL(p, backend) ==
    /\ frame[p].pc = "findSetURL"
    /\ LET f == frame[p] IN
       \E o \in WriteOutcomes(backend) :
         /\ cacheURL' = IF o = "ok"
                        THEN [cacheURL EXCEPT ![f.url.ShortCode] = {Marshal(f.url)}]
                        ELSE cacheURL
         /\ Return(p, Wrote(f, o), NoError, f.url)
    /\ UNCHANGED <<urls, nextId, cacheRev, cacheClicks, now, rlVars, sideVars, poolVars>>

(***************************************************************************)
(* Redis drops an entry when its TTL runs out (or evicts it).              *)
(***************************************************************************)
ExpireURL(c) ==
    /\ cacheURL[c] # {}
    /\ cacheURL' = [cacheURL EXCEPT ![c] = {}]
    /\ UNCHANGED <<urls, nextId, cacheRev, cacheClicks, now, frame, res, created,
                   recorded, rlVars, sideVars, poolVars>>

ExpireRev(l) ==
    /\ cacheRev[l] # {}
    /\ cacheRev' = [cacheRev EXCEPT ![l] = {}]
    /\ UNCHANGED <<urls, nextId, cacheURL, cacheClicks, now, frame, res, created,
                   recorded, rlVars, sideVars, poolVars>>

ExpireClicks(c) ==
    /\ cacheClicks[c] # {}
    /\ cacheClicks' = [cacheClicks EXCEPT ![c] = {}]
    /\ UNCHANGED <<urls, nextId, cacheURL, cacheRev, now, frame, res, created,
                   recorded, rlVars, sideVars, poolVars>>

(***************************************************************************)
(* RedisRateLimitMiddleware over RedisClient.IncrementRateLimit, for the   *)
(* requests of one client.  The pipeline sends INCR and EXPIRE as two      *)
(* commands; the commands of other requests can run between them.          *)
(***************************************************************************)
\* A middleware that rejects the request when the limiter fails.
DecideClosed(err, count, maxRequests) ==
    IF err THEN "abort"
    ELSE IF count > maxRequests THEN "abort" ELSE "next"

\* The middleware's verdict on (count, err) of IncrementRateLimit.
Decide(err, count, maxRequests) ==
    IF err THEN "next"
    ELSE IF count > maxRequests THEN "abort" ELSE "next"

\* IncrementRateLimit returns (count, err) and the middleware decides.
Respond(r, count, err) ==
    rlFrame' = [rlFrame EXCEPT ![r] =
                  [@ EXCEPT !.pc = "idle", !.count = count, !.err = err,
                            !.decision = Decide(err, count, Limit)]]

\* A request of the client enters the middleware.
RedisRateLimitMiddleware(r) ==
    /\ rlFrame[r].pc = "idle"
    /\ rlServed < MaxRequests
    /\ rlServed' = rlServed + 1
    /\ rlFrame' = [rlFrame EXCEPT ![r] = [IdleLimiter EXCEPT !.pc = "incr"]]
    /\ UNCHANGED <<storeVars, now, frame, res, created, recorded, poolVars, sideVars, rlCount, rlTTL,
                   rlStart>>

\* The window of the last counter that was given an expiry has run out.
WindowElapsed ==
    /\ rlStart # {}
    /\ now >= TheValue(rlStart) + Window
    /\ rlCount # {} => rlTTL # {}

\* pipe.Incr(ctx, key): INCR creates the key with 1 and without expiry when
\* it does not exist; or the pipeline does not reach the server.
PipeIncr(r) ==
    /\ rlFrame[r].pc = "incr"
    /\ \E o \in {"ok", "error"} :
         IF o = "error"
         THEN /\ Respond(r, 0, TRUE)
              /\ UNCHANGED <<rlCount, rlStart>>
         ELSE LET n == IF rlCount = {} THEN 1 ELSE TheValue(rlCount) + 1 IN
              /\ rlCount' = {n}
              /\ rlStart' = IF rlCount = {} THEN {now} ELSE rlStart
              /\ rlFrame' = [rlFrame EXCEPT ![r] =
                               [@ EXCEPT !.pc = "expire", !.count = n,
                                         !.elapsed = WindowElapsed]]
    /\ UNCHANGED <<storeVars, now, frame, res, created, recorded, poolVars, sideVars, rlTTL, rlServed>>

\* pipe.Expire(ctx, key, window) and the result of pipe.Exec: the command is
\* applied and answered, applied with the answer lost, or not applied.
PipeExpire(r) ==
    /\ rlFrame[r].pc = "expire"
    /\ \E o \in {"ok", "lost", "error"} :
         /\ rlTTL' = IF o # "error" /\ rlCount # {} THEN {now + Window} ELSE rlTTL
         /\ IF o = "ok" THEN Respond(r, rlFrame[r].count, FALSE)
            ELSE Respond(r, 0, TRUE)
    /\ UNCHANGED <<storeVars, now, frame, res, created, recorded, poolVars, sideVars, rlCount, rlStart,
                   rlServed>>

(***************************************************************************)
(* Time passes; Redis drops the rate-limit key when its expiry is reached. *)
(* An instant is long against a pipeline: the clock does not advance       *)
(* between the two commands of one pipeline.                               *)
(***************************************************************************)
Tick(last) ==
    /\ now < last
    /\ \A r \in Callers : rlFrame[r].pc # "expire"
    /\ now' = now + 1
    /\ IF rlTTL # {} /\ TheValue(rlTTL) <= now + 1
       THEN rlCount' = {} /\ rlTTL' = {}
       ELSE UNCHANGED <<rlCount, rlTTL>>
    /\ UNCHANGED <<storeVars, frame, res, created, recorded, poolVars, sideVars, rlFrame,
                   rlStart,
                   rlServed>>

(***************************************************************************)
(* CachedURLRepository.BatchIncrementClickCount: one transaction with one  *)
(* UPDATE per entry of the map.  The rows an UPDATE has changed stay       *)
(* locked and invisible to others until COMMIT, so the changes of the      *)
(* transaction take effect together at the commit.                         *)
(***************************************************************************)
\* The amounts an entry can carry: any int64, here the ones around zero.
Increments == (0 - MaxIncrement)..MaxIncrement

\* The maps a caller can pass: short code -> amount.
UpdateMaps == UNION { [S -> Increments] : S \in SUBSET Codes }

\* The call returns err; the deferred tx.Rollback() discards what was not
\* committed.
BatchReturn(err) == batch' = [IdleBatch EXCEPT !.err = err]

\* The table after COMMIT: click_count = click_count + $1 in every row an
\* UPDATE of the transaction matched.
ApplyBatch(table, updates, matched) ==
    { IF row.short_code \in matched
      THEN [row EXCEPT !.click_count = @ + updates[row.short_code]]
      ELSE row : row \in table }

\* The entry of BatchIncrementClickCount: an empty map returns nil at once.
BatchIncrementClickCount(updates) ==
    /\ batch.pc = "idle"
    /\ batches < MaxBatches
    /\ batches' = batches + 1
    /\ IF DOMAIN updates = {}
       THEN BatchReturn(NoError)
       ELSE batch' = [IdleBatch EXCEPT !.pc = "begin", !.updates = updates,
                                       !.todo = DOMAIN updates]
    /\ UNCHANGED <<storeVars, now, frame, res, created, recorded, rlVars, poolVars,
                   nullCall, nullWritten, warmup, gen,
                   built, mem>>

\* r.db.BeginTx(ctx, nil)
BatchBeginTx ==
    /\ batch.pc = "begin"
    /\ \E o \in DbOutcomes :
         IF o = "error" THEN BatchReturn(SqlError)
         ELSE batch' = [batch EXCEPT !.pc = "prepare"]
    /\ UNCHANGED <<storeVars, now, frame, res, created, recorded, rlVars, poolVars,
                   batches, nullCall, nullWritten, warmup, gen,
                   built, mem>>

\* tx.PrepareContext(ctx, `UPDATE urls SET click_count = click_count + $1
\* WHERE short_code = $2`)
BatchPrepare ==
    /\ batch.pc = "prepare"
    /\ \E o \in DbOutcomes :
         IF o = "error" THEN BatchReturn(SqlError)
         ELSE batch' = [batch EXCEPT !.pc = "exec"]
    /\ UNCHANGED <<storeVars, now, frame, res, created, recorded, rlVars, poolVars,
                   batches, nullCall, nullWritten, warmup, gen,
                   built, mem>>

\* stmt.ExecContext(ctx, increment, shortCode) for the next entry of the
\* range over the map (in any order); the number of rows it changed is not
\* looked at.
BatchExec ==
    /\ batch.pc = "exec"
    /\ \E shortCode \in batch.todo, o \in DbOutcomes :
         IF o = "error" THEN BatchReturn(SqlError)
         ELSE LET rest == batch.todo \ {shortCode} IN
              batch' = [batch EXCEPT
                          !.todo = rest,
                          !.matched = IF SelectByShortCode(urls, shortCode) # {}
                                      THEN @ \cup {shortCode} ELSE @,
                          !.pc = IF rest = {} THEN "commit" ELSE "exec"]
    /\ UNCHANGED <<storeVars, now, frame, res, created, recorded, rlVars, poolVars,
                   batches, nullCall, nullWritten, warmup, gen,
                   built, mem>>

\* tx.Commit()
BatchCommit ==
    /\ batch.pc = "commit"
    /\ \E o \in DbOutcomes :
         IF o = "error"
         THEN BatchReturn(SqlError) /\ UNCHANGED urls
         ELSE /\ urls' = ApplyBatch(urls, batch.updates, batch.matched)
              /\ BatchReturn(NoError)
    /\ UNCHANGED <<nextId, cacheURL, cacheRev, cacheClicks, now, frame, res, created,
                   recorded, rlVars, poolVars, batches, nullCall, nullWritten, warmup, gen,
                   built, mem>>

(***************************************************************************)
(* CachedURLRepository.WarmupCache, run once by a goroutine of main: the   *)
(* query reads the most clicked rows, then each row is written to the      *)
(* cache while the requests go on.                                         *)
(***************************************************************************)
\* The rows that can come next under ORDER BY click_count DESC,
\* created_at DESC.
NextRows(rows) ==
    { row \in rows :
        \A other \in rows :
          \/ other.click_count < row.click_count
          \/ /\ other.click_count = row.click_count
             /\ other.created_at <= row.created_at }

\* r.db.QueryContext(ctx, query, limit): the result set is fixed here.
WarmupQuery ==
    /\ warmup.pc = "query"
    /\ \E o \in DbOutcomes :
         warmup' = IF o = "error" THEN [warmup EXCEPT !.pc = "done"]
                   ELSE [warmup EXCEPT !.pc = "rows", !.rows = urls]
    /\ UNCHANGED <<storeVars, now, frame, res, created, recorded, rlVars, poolVars,
                   batch, batches, nullCall, nullWritten, gen,
                   built, mem>>

\* rows.Next(), rows.Scan and r.cache.SetWithTTL(ctx, CacheKeys.URL(
\* url.ShortCode), &url, 24*time.Hour) for one row; after the last row of
\* the result set, or row number limit, WarmupCache returns.
WarmupRow(backend) ==
    /\ warmup.pc = "rows"
    /\ IF warmup.rows = {} \/ warmup.fetched >= WarmupLimit
       THEN /\ warmup' = [warmup EXCEPT !.pc = "done", !.rows = {}]
            /\ UNCHANGED cacheURL
       ELSE \E row \in NextRows(warmup.rows), o \in WriteOutcomes(backend) :
              /\ warmup' = [warmup EXCEPT !.rows = @ \ {row}, !.fetched = @ + 1]
              /\ cacheURL' = IF o = "ok"
                             THEN [cacheURL EXCEPT ![Scan(row).ShortCode] =
                                                     {Marshal(Scan(row))}]
                             ELSE cacheURL
    /\ UNCHANGED <<urls, nextId, cacheRev, cacheClicks, now, frame, res, created,
                   recorded, rlVars, poolVars, batch, batches, nullCall, nullWritten, gen,
                   built, mem>>

(***************************************************************************)
(* NullCache, the cache used when there is no Redis: a struct without      *)
(* fields.  Each method is an operator from its arguments to what it       *)
(* returns.                                                                *)
(***************************************************************************)
CacheKeyNames == {"url:a", "url:b", "short:x"}
CacheValues == {"v", "w"}

NullSet(key, value) == NoError
NullSetWithTTL(key, value, ttl) == NoError
\* A Get that reports a hit.
GetHit(key) == NoError
NullGet(key) == ErrCacheMiss
NullDelete(keys) == NoError
NullExists(key) == [exists |-> FALSE, err |-> NoError]
NullSetString(key, value) == NoError
NullGetString(key) == [str |-> "", err |-> ErrCacheMiss]
NullHealthCheck == NoError
NullClose == NoError

\* A call of a NullCache method by any goroutine; written is the set of
\* keys a cache that stored its writes would hold after the call.
NullCacheCall(call, written) ==
    /\ nullCall' = call
    /\ nullWritten' = written
    /\ UNCHANGED <<storeVars, now, frame, res, created, recorded, rlVars, poolVars,
                   batch, batches, warmup, gen,
                   built, mem>>

NullCacheSet(key, value) ==
    NullCacheCall([NoCall EXCEPT !.op = "Set", !.keys = {key},
                                 !.err = NullSet(key, value)],
                  nullWritten \cup {key})

NullCacheSetWithTTL(key, value, ttl) ==
    NullCacheCall([NoCall EXCEPT !.op = "SetWithTTL", !.keys = {key},
                                 !.err = NullSetWithTTL(key, value, ttl)],
                  nullWritten \cup {key})

NullCacheSetString(key, value) ==
    NullCacheCall([NoCall EXCEPT !.op = "SetString", !.keys = {key},
                                 !.err = NullSetString(key, value)],
                  nullWritten \cup {key})

NullCacheDelete(keys) ==
    NullCacheCall([NoCall EXCEPT !.op = "Delete", !.keys = keys,
                                 !.err = NullDelete(keys)],
                  nullWritten \ keys)

\* Get leaves *dest as it was.
NullCacheGet(key) ==
    NullCacheCall([NoCall EXCEPT !.op = "Get", !.keys = {key},
                                 !.err = NullGet(key)],
                  nullWritten)

NullCacheGetString(key) ==
    NullCacheCall([NoCall EXCEPT !.op = "GetString", !.keys = {key},
                                 !.str = NullGetString(key).str,
                                 !.err = NullGetString(key).err],
                  nullWritten)

NullCacheExists(key) ==
    NullCacheCall([NoCall EXCEPT !.op = "Exists", !.keys = {key},
                                 !.exists = NullExists(key).exists,
                                 !.err = NullExists(key).err],
                  nullWritten)

NullCacheHealthCheck ==
    NullCacheCall([NoCall EXCEPT !.op = "HealthCheck", !.err = NullHealthCheck],
                  nullWritten)

NullCacheClose ==
    NullCacheCall([NoCall EXCEPT !.op = "Close", !.err = NullClose], nullWritten)

(***************************************************************************)
(* ClickWorkerPool: a buffered channel of jobs, the workers that take jobs *)
(* from it and call RecordClick, AddJob of the redirect handler, and       *)
(* Shutdown, which main calls before it stops the HTTP server.             *)
(***************************************************************************)
\* cap(p.jobQueue)
Capacity == NumWorkers * QueueFactor

\* ClickWorkerPool.AddJob: a select of a send and a default.  The send goes
\* ahead when the buffer has room, and is a run-time panic when the channel
\* is closed; the default logs the drop.
EnterAddJob(code) ==
    /\ offered' = offered + 1
    /\ IF queueClosed
       THEN /\ faulted' = faulted + 1
            /\ UNCHANGED <<jobQueue, dropped>>
       ELSE IF Len(jobQueue) < Capacity
       THEN /\ jobQueue' = Append(jobQueue, code)
            /\ UNCHANGED <<dropped, faulted>>
       ELSE /\ dropped' = dropped + 1
            /\ UNCHANGED <<jobQueue, faulted>>

\* AddJob called by a request goroutine that is not modelled further.
AddJob(code) ==
    /\ ~crashed
    /\ offered < MaxJobs
    /\ EnterAddJob(code)
    /\ UNCHANGED <<storeVars, now, frame, res, created, recorded, rlVars, sideVars,
                   queueClosed, poolDone, shutdownPc, workerUp, crashed, handler>>

\* The cases of the worker's select that can go ahead: a receive from a
\* channel that holds a job or is closed, and the receive from ctx.Done().
ReadyCases ==
    (IF jobQueue # <<>> \/ queueClosed THEN {"job"} ELSE {})
    \cup (IF poolDone THEN {"done"} ELSE {})

\* ClickWorkerPool.worker: one turn of the loop up to the call of
\* job.Service.RecordClick.  A receive from the closed and drained channel
\* yields the zero ClickJob, whose Service is nil: the call panics and the
\* process dies.
Worker(p) ==
    /\ ~crashed
    /\ workerUp[p]
    /\ frame[p].pc = "idle"
    /\ \E c \in ReadyCases :
         IF c = "done"
         THEN /\ workerUp' = [workerUp EXCEPT ![p] = FALSE]
              /\ UNCHANGED <<frame, res, created, recorded, jobQueue, crashed>>
         ELSE IF jobQueue = <<>>
         THEN /\ crashed' = TRUE
              /\ UNCHANGED <<frame, res, created, recorded, jobQueue, workerUp>>
         ELSE /\ jobQueue' = Tail(jobQueue)
              /\ EnterRecordClick(p, Head(jobQueue))
              /\ UNCHANGED <<workerUp, crashed>>
    /\ UNCHANGED <<storeVars, now, rlVars, sideVars, queueClosed, poolDone, shutdownPc,
                   offered, dropped, faulted, handler>>

\* ClickWorkerPool.Shutdown: p.cancel(), close(p.jobQueue), p.wg.Wait().
Shutdown ==
    /\ ~crashed
    /\ \/ /\ shutdownPc = "none"
          /\ poolDone' = TRUE
          /\ shutdownPc' = "cancel"
          /\ UNCHANGED queueClosed
       \/ /\ shutdownPc = "cancel"
          /\ queueClosed' = TRUE
          /\ shutdownPc' = "close"
          /\ UNCHANGED poolDone
       \/ /\ shutdownPc = "close"
          /\ \A w \in Workers : ~workerUp[w]
          /\ shutdownPc' = "returned"
          /\ UNCHANGED <<queueClosed, poolDone>>
    /\ UNCHANGED <<storeVars, now, frame, res, created, recorded, rlVars, sideVars, jobQueue,
                   workerUp, crashed, offered, dropped, faulted, handler>>

(***************************************************************************)
(* URLHandler.RedirectURL, run by a request goroutine of the HTTP server   *)
(* behind gin's Recovery middleware.                                       *)
(***************************************************************************)
\* A parameter that shortCodeRegex does not match (too short, too long or
\* with a symbol that is neither letter nor digit).
MalformedCode == -1

\* isValidShortCode: non-empty and matched by ^[a-zA-Z0-9]{4,10}$; the codes
\* 1..NumCodes stand for six letters and digits.
isValidShortCode(shortCode) == shortCode # EmptyCode /\ shortCode \in Codes

\* The HTTP status handleError answers err with.
handleError(err) ==
    IF err.Type = "ValidationError" THEN 400
    ELSE IF "ErrURLNotFound" \in err.Is THEN 404
    ELSE IF err.Type = "BusinessError"
    THEN (IF err.Code = "SHORT_CODE_EXISTS" THEN 409 ELSE 500)
    ELSE 500

\* A job for another code than the one resolved.
OtherJob(shortCode) == CHOOSE c \in Codes : c # shortCode

\* ClickJob{ShortCode: shortCode, Service: h.urlService}: every job holds
\* the one service, so that a job is known by its code.
ClickJob(shortCode) == shortCode

\* A response that tells the caller of a dropped job.
RedirectIfAccepted(h, originalURL, job) ==
    [h EXCEPT !.pc = "idle",
              !.status = IF job = "accepted" THEN 302 ELSE 503,
              !.location = IF job = "accepted" THEN originalURL ELSE <<>>,
              !.job = job]

\* c.Redirect(http.StatusFound, originalURL) at the end of RedirectURL; job
\* records what AddJob did with the job before.
Redirect(h, originalURL, job) ==
    [h EXCEPT !.pc = "idle", !.status = 302, !.location = originalURL,
              !.job = job]

\* RedirectURL up to the call of GetOriginalURL: a parameter of the wrong
\* format is answered with 400 at once.
RedirectURL(p, shortCode) ==
    /\ ~crashed
    /\ handler[p].pc = "idle"
    /\ frame[p].pc = "idle"
    /\ offered < MaxJobs
    /\ IF ~isValidShortCode(shortCode)
       THEN /\ handler' = [handler EXCEPT ![p] =
                             [IdleHandler EXCEPT !.shortCode = shortCode,
                                                 !.status = 400]]
            /\ UNCHANGED <<frame, res, created, recorded>>
       ELSE /\ EnterGetURL(p, shortCode)
            /\ handler' = [handler EXCEPT ![p] =
                             [IdleHandler EXCEPT !.pc = "resolve",
                                                 !.shortCode = shortCode]]
    /\ UNCHANGED <<storeVars, now, rlVars, sideVars, jobQueue, queueClosed,
                   poolDone, shutdownPc, workerUp, crashed, offered, dropped,
                   faulted>>

\* RedirectURL from the return of GetOriginalURL: handleError, or AddJob and
\* c.Redirect(http.StatusFound, originalURL).  A panic of AddJob is
\* recovered by the middleware, which answers 500.
RedirectAddJob(p) ==
    /\ ~crashed
    /\ handler[p].pc = "resolve"
    /\ frame[p].pc = "idle"
    /\ IF res[p].Err # NoError
       THEN /\ handler' = [handler EXCEPT ![p] =
                             [@ EXCEPT !.pc = "idle",
                                       !.status = handleError(res[p].Err)]]
            /\ UNCHANGED <<jobQueue, offered, dropped, faulted>>
       ELSE /\ EnterAddJob(ClickJob(handler[p].shortCode))
            /\ handler' = [handler EXCEPT ![p] =
                 IF queueClosed
                 THEN [@ EXCEPT !.pc = "idle", !.status = 500, !.job = "panic"]
                 ELSE Redirect(@, res[p].URL.OriginalURL,
                               IF Len(jobQueue) < Capacity
                               THEN "accepted" ELSE "dropped")]
    /\ UNCHANGED <<storeVars, now, frame, res, created, recorded, rlVars, sideVars,
                   queueClosed, poolDone, shutdownPc, workerUp, crashed>>

(***************************************************************************)
(* KeyBuilder: the keys of the cache.  A string is the sequence of its     *)
(* characters.                                                             *)
(***************************************************************************)
PrefixURL == <<"u", "r", "l">>
PrefixShort == <<"s", "h", "o", "r", "t">>
PrefixClicks == <<"c", "l", "i", "c", "k", "s">>
PrefixRateLimit == <<"r", "a", "t", "e">>

\* key += ":" + part, for every part in turn.
RECURSIVE AppendParts(_, _)
AppendParts(key, parts) ==
    IF parts = <<>> THEN key
    ELSE AppendParts(key \o <<":">> \o Head(parts), Tail(parts))

\* A Build that leaves the prefix out.
BuildBare(namespace, prefix, parts) == AppendParts(namespace, parts)

\* KeyBuilder.Build
Build(namespace, prefix, parts) ==
    AppendParts(IF namespace # <<>> THEN namespace \o <<":">> \o prefix
                ELSE prefix,
                parts)

\* The four methods in use; the argument of ShortCode here is hash, the
\* hexadecimal digest hashURL(originalURL) the method builds the key from.
KeyMethods == {"URL", "ShortCode", "Clicks", "RateLimit"}
PrefixOf(method) ==
    CASE method = "URL" -> PrefixURL
      [] method = "ShortCode" -> PrefixShort
      [] method = "Clicks" -> PrefixClicks
      [] method = "RateLimit" -> PrefixRateLimit

\* The namespaces of the model: none (DefaultKeyBuilder) and one.
Namespaces == {<<>>, <<"n">>}

\* The characters of the arguments, ':' not among them, and the arguments:
\* every string of up to MaxPartLen characters.
PartChars == {"a", "s"}
KeyParts == UNION {[1..n -> PartChars] : n \in 0..MaxPartLen}

\* NewKeyBuilder(namespace)
NewKeyBuilder(namespace) ==
    /\ ~built.made
    /\ built' = [built EXCEPT !.made = TRUE, !.namespace = namespace]
    /\ UNCHANGED <<storeVars, now, frame, res, created, recorded, rlVars, poolVars,
                   batch, batches, nullCall, nullWritten, warmup, gen, mem>>

\* k.URL(arg), k.ShortCode, k.Clicks or k.RateLimit: Build with the prefix of
\* the method and the one part.
BuildKey(method, arg) ==
    /\ built.made
    /\ built' = [built EXCEPT !.keys =
                   <<built.keys[2],
                     [method |-> method, arg |-> arg,
                      key |-> Build(built.namespace, PrefixOf(method), <<arg>>)]>>]
    /\ UNCHANGED <<storeVars, now, frame, res, created, recorded, rlVars, poolVars,
                   batch, batches, nullCall, nullWritten, warmup, gen, mem>>

(***************************************************************************)
(* InMemoryRateLimitMiddleware: a map from client address to the instants  *)
(* of its requests, shared by the request goroutines without a lock.  Each *)
(* read and each write of the map is a step of its own.                    *)
(***************************************************************************)
\* requests[clientIP]: the nil slice for a client the map has no entry of.
MapGet(requests, clientIP) ==
    IF clientIP \in DOMAIN requests THEN requests[clientIP] ELSE <<>>

\* requests[clientIP] = times
MapPut(requests, clientIP, times) ==
    [c \in DOMAIN requests \cup {clientIP} |->
       IF c = clientIP THEN times ELSE requests[c]]

\* The instants of times that are less than window before at.
ValidTimes(times, at) == SelectSeq(times, LAMBDA t : at - t < Window)

\* Another request goroutine is inside the middleware.
Racing(g) == \E h \in Callers \ {g} : mem.frames[h].pc # "idle"

\* An unsynchronised write of the map beside another goroutine that uses
\* it: the write goes through, or the runtime detects it and ends the
\* process.
MapWrite(g, f, requests) ==
    \/ mem' = [mem EXCEPT !.frames[g] = f, !.requests = requests]
    \/ /\ Racing(g)
       /\ mem' = [mem EXCEPT !.fatal = TRUE]

\* What every step of the middleware leaves alone.
LimiterFrame ==
    UNCHANGED <<storeVars, now, frame, res, created, recorded, rlVars, poolVars,
                batch, batches, nullCall, nullWritten, warmup, gen, built>>

\* clientIP := c.ClientIP(); now := time.Now()
InMemoryRateLimitMiddleware(g, clientIP) ==
    /\ ~mem.fatal
    /\ mem.frames[g].pc = "idle"
    /\ mem.served < MaxRequests
    /\ mem' = [mem EXCEPT !.served = @ + 1,
                          !.frames[g] = [IdleMemLimiter EXCEPT !.pc = "lookup",
                                                            !.clientIP = clientIP,
                                                            !.now = now]]
    /\ LimiterFrame

\* if times, exists := requests[clientIP]; exists { ... the loop ... }
LimiterLookup(g) ==
    /\ ~mem.fatal
    /\ mem.frames[g].pc = "lookup"
    /\ LET f == mem.frames[g] IN
       mem' = IF f.clientIP \in DOMAIN mem.requests
              THEN [mem EXCEPT !.frames[g] =
                      [f EXCEPT !.pc = "store",
                                !.times = ValidTimes(mem.requests[f.clientIP], f.now)]]
              ELSE [mem EXCEPT !.frames[g] = [f EXCEPT !.pc = "check"]]
    /\ LimiterFrame

\* requests[clientIP] = validTimes
LimiterStore(g) ==
    /\ ~mem.fatal
    /\ mem.frames[g].pc = "store"
    /\ LET f == mem.frames[g] IN
       MapWrite(g, [f EXCEPT !.pc = "check", !.times = <<>>],
                MapPut(mem.requests, f.clientIP, f.times))
    /\ LimiterFrame

\* if len(requests[clientIP]) >= maxRequests { 429; c.Abort(); return }
LimiterCheck(g) ==
    /\ ~mem.fatal
    /\ mem.frames[g].pc = "check"
    /\ LET f == mem.frames[g] IN
       mem' = IF Len(MapGet(mem.requests, f.clientIP)) >= Limit
              THEN [mem EXCEPT !.frames[g] = [f EXCEPT !.pc = "idle", !.status = 429]]
              ELSE [mem EXCEPT !.frames[g] = [f EXCEPT !.pc = "load"]]
    /\ LimiterFrame

\* The read of requests[clientIP] in append(requests[clientIP], now).
LimiterLoad(g) ==
    /\ ~mem.fatal
    /\ mem.frames[g].pc = "load"
    /\ LET f == mem.frames[g] IN
       mem' = [mem EXCEPT !.frames[g] =
                 [f EXCEPT !.pc = "append",
                           !.times = MapGet(mem.requests, f.clientIP)]]
    /\ LimiterFrame

\* requests[clientIP] = append(..., now), then c.Next().
LimiterAppend(g) ==
    /\ ~mem.fatal
    /\ mem.frames[g].pc = "append"
    /\ LET f == mem.frames[g] IN
       \/ mem' = [mem EXCEPT
                    !.frames[g] = [f EXCEPT !.pc = "idle", !.times = <<>>,
                                            !.status = 200],
                    !.requests = MapPut(mem.requests, f.clientIP,
                                        Append(f.times, f.now)),
                    !.admitted[f.clientIP] = Append(@, f.now)]
       \/ /\ Racing(g)
          /\ mem' = [mem EXCEPT !.fatal = TRUE]
    /\ LimiterFrame

(***************************************************************************)
(* The specifications.                                                     *)
(***************************************************************************)
\* The next step of the call goroutine p is in, over a working cache.
CallStep(p) ==
    \/ GenerateShortCode(p)
    \/ RepoCreateInsert(p)
    \/ RepoCreateSetURL(p, "redis")
    \/ RepoCreateSetRev(p, "redis")
    \/ RepoGetCache(p, "redis")
    \/ RepoGetDb(p)
    \/ RepoGetSetURL(p, "redis")
    \/ RepoGetSetClicks(p, "redis")
    \/ RepoIncrementDb(p)
    \/ RepoIncrSetClicks(p, "redis")
    \/ RepoIncrDelete(p, "redis")

\* One goroutine at a time.
Solo == {CHOOSE p \in Callers : TRUE}

\* The empty request and one clean locator.
PlainURLs == {<<>>, <<"h", "p">>}

\* Concurrent CreateShortURL calls over a working cache.
Next ==
    \/ \E p \in Callers, rawURL \in RequestURLs : CreateShortURL(p, rawURL)
    \/ \E p \in Callers : GenerateShortCode(p)
    \/ \E p \in Callers : RepoCreateInsert(p)
    \/ \E p \in Callers : RepoCreateSetURL(p, "redis")
    \/ \E p \in Callers : RepoCreateSetRev(p, "redis")

Spec == Init /\ [][Next]_vars

\* The CreateShortURL calls of one goroutine, with every kind of request,
\* over a cache that can fail.
NextValidate ==
    \/ \E p \in Solo, rawURL \in RequestURLs : CreateShortURL(p, rawURL)
    \/ \E p \in Solo : GenerateShortCode(p)
    \/ \E p \in Solo : RepoCreateInsert(p)
    \/ \E p \in Solo : RepoCreateSetURL(p, "flaky")
    \/ \E p \in Solo : RepoCreateSetRev(p, "flaky")

SpecValidate == Init /\ [][NextValidate]_vars

\* The creates of one goroutine under concurrent resolves, over a working
\* cache whose entries can expire at any time.
NextRound ==
    \/ \E p \in Solo, rawURL \in RequestURLs : CreateShortURL(p, rawURL)
    \/ \E p \in Solo : GenerateShortCode(p)
    \/ \E p \in Solo : RepoCreateInsert(p)
    \/ \E p \in Solo : RepoCreateSetURL(p, "redis")
    \/ \E p \in Solo : RepoCreateSetRev(p, "redis")
    \/ \E p \in Callers, code \in Codes \cup {EmptyCode} : GetURL(p, code)
    \/ \E p \in Callers : RepoGetCache(p, "redis")
    \/ \E p \in Callers : RepoGetDb(p)
    \/ \E p \in Callers : RepoGetSetURL(p, "redis")
    \/ \E p \in Callers : RepoGetSetClicks(p, "redis")
    \/ \E c \in Codes : ExpireURL(c)

SpecRound == Init /\ [][NextRound]_vars

\* The four repository operations, one call at a time, over a cache every
\* call of which can fail, while time passes and entries expire.
NextFaults ==
    \/ \E p \in Solo, rawURL \in PlainURLs : CreateShortURL(p, rawURL)
    \/ \E p \in Solo : GenerateShortCode(p)
    \/ \E p \in Solo : RepoCreateInsert(p)
    \/ \E p \in Solo : RepoCreateSetURL(p, "flaky")
    \/ \E p \in Solo : RepoCreateSetRev(p, "flaky")
    \/ \E p \in Solo, code \in Codes \cup {EmptyCode} : GetURL(p, code)
    \/ \E p \in Solo : RepoGetCache(p, "flaky")
    \/ \E p \in Solo : RepoGetDb(p)
    \/ \E p \in Solo : RepoGetSetURL(p, "flaky")
    \/ \E p \in Solo : RepoGetSetClicks(p, "flaky")
    \/ \E p \in Solo, code \in Codes \cup {EmptyCode} : RecordClick(p, code, FaultClicks)
    \/ \E p \in Solo : RepoIncrementDb(p)
    \/ \E p \in Solo : RepoIncrSetClicks(p, "flaky")
    \/ \E p \in Solo : RepoIncrDelete(p, "flaky")
    \/ \E p \in Solo, l \in Locators : GetByOriginalURL(p, l)
    \/ \E p \in Solo : RepoFindCache(p, "flaky")
    \/ \E p \in Solo : RepoFindDb(p)
    \/ \E p \in Solo : RepoFindSetRev(p, "flaky")
    \/ \E p \in Solo : RepoFindSetURL(p, "flaky")
    \/ \E c \in Codes : ExpireURL(c)
    \/ \E l \in Locators : ExpireRev(l)
    \/ \E c \in Codes : ExpireClicks(c)
    \/ Tick(MaxTime)

SpecFaults == Init /\ [][NextFaults]_vars

\* The creates of one goroutine under concurrent resolves and recorded
\* clicks, over a working cache whose entries can expire at any time.
NextClicks ==
    \/ \E p \in Solo, rawURL \in PlainURLs : CreateShortURL(p, rawURL)
    \/ \E p \in Solo : GenerateShortCode(p)
    \/ \E p \in Solo : RepoCreateInsert(p)
    \/ \E p \in Solo : RepoCreateSetURL(p, "redis")
    \/ \E p \in Solo : RepoCreateSetRev(p, "redis")
    \/ \E p \in Callers, code \in Codes \cup {EmptyCode} : GetURL(p, code)
    \/ \E p \in Callers : RepoGetCache(p, "redis")
    \/ \E p \in Callers : RepoGetDb(p)
    \/ \E p \in Callers : RepoGetSetURL(p, "redis")
    \/ \E p \in Callers : RepoGetSetClicks(p, "redis")
    \/ \E p \in Callers, code \in Codes \cup {EmptyCode} : RecordClick(p, code, MaxClicks)
    \/ \E p \in Callers : RepoIncrementDb(p)
    \/ \E p \in Callers : RepoIncrSetClicks(p, "redis")
    \/ \E p \in Callers : RepoIncrDelete(p, "redis")
    \/ \E c \in Codes : ExpireURL(c)

SpecClicks == Init /\ [][NextClicks]_vars

\* The sequential scenario: one goroutine, a working cache, no expiry.
NextSeq ==
    \/ \E p \in Solo, rawURL \in PlainURLs : CreateShortURL(p, rawURL)
    \/ \E p \in Solo : GenerateShortCode(p)
    \/ \E p \in Solo : RepoCreateInsert(p)
    \/ \E p \in Solo : RepoCreateSetURL(p, "redis")
    \/ \E p \in Solo : RepoCreateSetRev(p, "redis")
    \/ \E p \in Solo, code \in Codes \cup {EmptyCode} : GetURL(p, code)
    \/ \E p \in Solo : RepoGetCache(p, "redis")
    \/ \E p \in Solo : RepoGetDb(p)
    \/ \E p \in Solo : RepoGetSetURL(p, "redis")
    \/ \E p \in Solo : RepoGetSetClicks(p, "redis")
    \/ \E p \in Solo, code \in Codes \cup {EmptyCode} : RecordClick(p, code, SeqClicks)
    \/ \E p \in Solo : RepoIncrementDb(p)
    \/ \E p \in Solo : RepoIncrSetClicks(p, "redis")
    \/ \E p \in Solo : RepoIncrDelete(p, "redis")

SpecSeq == Init /\ [][NextSeq]_vars

\* GetByOriginalURL of the other goroutines beside the creates of one
\* goroutine, over a working cache, while time passes and mapping entries
\* expire.
NextFind ==
    \/ \E p \in Solo, rawURL \in PlainURLs : CreateShortURL(p, rawURL)
    \/ \E p \in Solo : GenerateShortCode(p)
    \/ \E p \in Solo : RepoCreateInsert(p)
    \/ \E p \in Solo : RepoCreateSetURL(p, "redis")
    \/ \E p \in Solo : RepoCreateSetRev(p, "redis")
    \/ \E p \in Callers \ Solo, l \in Locators : GetByOriginalURL(p, l)
    \/ \E p \in Callers \ Solo : RepoFindCache(p, "redis")
    \/ \E p \in Callers \ Solo : RepoFindDb(p)
    \/ \E p \in Callers \ Solo : RepoFindSetRev(p, "redis")
    \/ \E p \in Callers \ Solo : RepoFindSetURL(p, "redis")
    \/ \E p \in Callers \ Solo : RepoGetCache(p, "redis")
    \/ \E p \in Callers \ Solo : RepoGetDb(p)
    \/ \E p \in Callers \ Solo : RepoGetSetURL(p, "redis")
    \/ \E p \in Callers \ Solo : RepoGetSetClicks(p, "redis")
    \/ \E c \in Codes : ExpireURL(c)
    \/ Tick(MaxTime)

SpecFind == Init /\ [][NextFind]_vars

\* The parameters of the redirect requests: one well-formed code, which
\* may or may not be the code of the record, the empty one and a malformed
\* one.
RedirectCodes == {CHOOSE c \in Codes : TRUE, EmptyCode, MalformedCode}

\* One request goroutine that creates a record and serves redirects, and
\* the workers of the pool, over a working cache, while main shuts the pool
\* down at any time.
NextRedirect ==
    \/ \E p \in Callers \ Workers, rawURL \in PlainURLs :
         urls = {} /\ handler[p].pc = "idle" /\ CreateShortURL(p, rawURL)
    \/ \E p \in Callers \ Workers : GenerateShortCode(p)
    \/ \E p \in Callers \ Workers : RepoCreateInsert(p)
    \/ \E p \in Callers \ Workers : RepoCreateSetURL(p, "redis")
    \/ \E p \in Callers \ Workers : RepoCreateSetRev(p, "redis")
    \/ \E p \in Callers \ Workers, shortCode \in RedirectCodes :
         RedirectURL(p, shortCode)
    \/ \E p \in Callers \ Workers : RedirectAddJob(p)
    \/ \E p \in Workers : Worker(p)
    \/ \E p \in Callers : ~crashed /\ RepoGetCache(p, "redis")
    \/ \E p \in Callers : ~crashed /\ RepoGetDb(p)
    \/ \E p \in Callers : ~crashed /\ RepoGetSetURL(p, "redis")
    \/ \E p \in Callers : ~crashed /\ RepoGetSetClicks(p, "redis")
    \/ \E p \in Workers : ~crashed /\ RepoIncrementDb(p)
    \/ \E p \in Workers : ~crashed /\ RepoIncrSetClicks(p, "redis")
    \/ \E p \in Workers : ~crashed /\ RepoIncrDelete(p, "redis")
    \/ Shutdown

SpecRedirect == Init /\ [][NextRedirect]_vars

\* The requests of one client at the rate limiter while time passes.
NextRL ==
    \/ \E r \in Callers : RedisRateLimitMiddleware(r)
    \/ \E r \in Callers : PipeIncr(r)
    \/ \E r \in Callers : PipeExpire(r)
    \/ Tick(MaxTime)

SpecRL == Init /\ [][NextRL]_vars

\* The click worker pool over a working cache: the redirect handler offers
\* jobs, the workers record the clicks, main shuts the pool down.
NextPool ==
    \/ \E code \in Codes : AddJob(code)
    \/ \E p \in Workers : Worker(p)
    \/ \E p \in Workers : ~crashed /\ RepoGetCache(p, "redis")
    \/ \E p \in Workers : ~crashed /\ RepoGetDb(p)
    \/ Shutdown

SpecPool == Init /\ [][NextPool]_vars

\* ExistsByShortCode and GetURL calls of the other goroutines beside the
\* creates of one goroutine and the cache warm-up, over a cache whose
\* Exists calls can fail and whose mapping entries expire.
NextExists ==
    \/ \E p \in Solo, rawURL \in PlainURLs : CreateShortURL(p, rawURL)
    \/ \E p \in Solo : GenerateShortCode(p)
    \/ \E p \in Solo : RepoCreateInsert(p)
    \/ \E p \in Solo : RepoCreateSetURL(p, "redis")
    \/ \E p \in Solo : RepoCreateSetRev(p, "redis")
    \/ \E p \in Callers \ Solo, code \in Codes : ExistsByShortCode(p, code)
    \/ \E p \in Callers \ Solo : RepoExistsCache(p, "flaky")
    \/ \E p \in Callers \ Solo : RepoExistsDb(p)
    \/ \E p \in Callers \ Solo, code \in Codes : GetURL(p, code)
    \/ \E p \in Callers \ Solo : RepoGetCache(p, "redis")
    \/ \E p \in Callers \ Solo : RepoGetDb(p)
    \/ \E p \in Callers \ Solo : RepoGetSetURL(p, "redis")
    \/ \E p \in Callers \ Solo : RepoGetSetClicks(p, "redis")
    \/ WarmupQuery
    \/ WarmupRow("redis")
    \/ \E c \in Codes : ExpireURL(c)

SpecExists == Init /\ [][NextExists]_vars

\* The code whose counter is followed.
LiveCodes == {CHOOSE c \in Codes : TRUE}

\* The creates of one goroutine under concurrent resolves and a bounded
\* number of recorded clicks, over a working cache whose mapping entries
\* expire by their TTL.
NextConverge ==
    \/ \E p \in Solo, rawURL \in PlainURLs : CreateShortURL(p, rawURL)
    \/ \E p \in Callers, code \in LiveCodes : GetURL(p, code)
    \/ \E p \in Callers, code \in LiveCodes : RecordClick(p, code, LiveClicks)
    \/ \E p \in Callers : CallStep(p)
    \/ \E c \in Codes : ExpireURL(c)

SpecConverge == Init /\ [][NextConverge]_vars

\* Every call that is under way goes on (each cache and database call
\* returns within its timeout), and an entry that stays in the cache meets
\* its TTL.  New calls need not come.
SpecConvergeLive ==
    /\ SpecConverge
    /\ \A p \in Callers : WF_vars(CallStep(p))
    /\ \A c \in Codes : WF_vars(ExpireURL(c))

\* One KeyBuilder and the keys it builds.
NextKeys ==
    \/ \E namespace \in Namespaces : NewKeyBuilder(namespace)
    \/ \E method \in KeyMethods, arg \in KeyParts : BuildKey(method, arg)

SpecKeys == Init /\ [][NextKeys]_vars

\* The request goroutines in the in-process rate limiter while time passes.
NextLimiter ==
    \/ \E g \in Callers, clientIP \in Clients : InMemoryRateLimitMiddleware(g, clientIP)
    \/ \E g \in Callers : LimiterLookup(g)
    \/ \E g \in Callers : LimiterStore(g)
    \/ \E g \in Callers : LimiterCheck(g)
    \/ \E g \in Callers : LimiterLoad(g)
    \/ \E g \in Callers : LimiterAppend(g)
    \/ Tick(MaxTime)

SpecLimiter == Init /\ [][NextLimiter]_vars

\* The pool under the Go scheduler: a goroutine that can take a step takes
\* one sooner or later.  That holds for Shutdown, for every worker at its
\* select, and for the cache and database calls of a job, which return
\* within the job's five seconds.  Requests need not keep coming.
SpecPoolLive ==
    /\ SpecPool
    /\ WF_vars(Shutdown)
    /\ \A p \in Workers :
         /\ WF_vars(Worker(p))
         /\ WF_vars(~crashed /\ RepoGetCache(p, "redis"))
         /\ WF_vars(~crashed /\ RepoGetDb(p))

\* Batch flushes beside the creates, resolves and recorded clicks of one
\* goroutine, over a working cache.
NextBatch ==
    \/ \E p \in Solo, rawURL \in PlainURLs : CreateShortURL(p, rawURL)
    \/ \E p \in Solo : GenerateShortCode(p)
    \/ \E p \in Solo : RepoCreateInsert(p)
    \/ \E p \in Solo : RepoCreateSetURL(p, "redis")
    \/ \E p \in Solo : RepoCreateSetRev(p, "redis")
    \/ \E p \in Solo, code \in Codes \cup {EmptyCode} : GetURL(p, code)
    \/ \E p \in Solo : RepoGetCache(p, "redis")
    \/ \E p \in Solo : RepoGetDb(p)
    \/ \E p \in Solo : RepoGetSetURL(p, "redis")
    \/ \E p \in Solo : RepoGetSetClicks(p, "redis")
    \/ \E p \in Solo, code \in Codes \cup {EmptyCode} : RecordClick(p, code, BatchClicks)
    \/ \E p \in Solo : RepoIncrementDb(p)
    \/ \E p \in Solo : RepoIncrSetClicks(p, "redis")
    \/ \E p \in Solo : RepoIncrDelete(p, "redis")
    \/ \E updates \in UpdateMaps : BatchIncrementClickCount(updates)
    \/ BatchBeginTx
    \/ BatchPrepare
    \/ BatchExec
    \/ BatchCommit

SpecBatch == Init /\ [][NextBatch]_vars

\* Any sequence of calls on the NullCache.
NextNull ==
    \/ \E key \in CacheKeyNames, value \in CacheValues : NullCacheSet(key, value)
    \/ \E key \in CacheKeyNames, value \in CacheValues, ttl \in 0..MaxTime :
         NullCacheSetWithTTL(key, value, ttl)
    \/ \E key \in CacheKeyNames, value \in CacheValues : NullCacheSetString(key, value)
    \/ \E keys \in SUBSET CacheKeyNames : NullCacheDelete(keys)
    \/ \E key \in CacheKeyNames : NullCacheGet(key)
    \/ \E key \in CacheKeyNames : NullCacheGetString(key)
    \/ \E key \in CacheKeyNames : NullCacheExists(key)
    \/ NullCacheHealthCheck
    \/ NullCacheClose

SpecNull == Init /\ [][NextNull]_vars

\* Degraded mode: the four repository operations of concurrent goroutines
\* with the NullCache in the place of Redis.
NextDegraded ==
    \/ \E p \in Callers, rawURL \in PlainURLs : CreateShortURL(p, rawURL)
    \/ \E p \in Callers : GenerateShortCode(p)
    \/ \E p \in Callers : RepoCreateInsert(p)
    \/ \E p \in Callers : RepoCreateSetURL(p, "null")
    \/ \E p \in Callers : RepoCreateSetRev(p, "null")
    \/ \E p \in Callers, code \in Codes \cup {EmptyCode} : GetURL(p, code)
    \/ \E p \in Callers : RepoGetCache(p, "null")
    \/ \E p \in Callers : RepoGetDb(p)
    \/ \E p \in Callers : RepoGetSetURL(p, "null")
    \/ \E p \in Callers : RepoGetSetClicks(p, "null")
    \/ \E p \in Callers, code \in Codes : ExistsByShortCode(p, code)
    \/ \E p \in Callers : RepoExistsCache(p, "null")
    \/ \E p \in Callers : RepoExistsDb(p)
    \/ \E p \in Callers, code \in Codes \cup {EmptyCode} : RecordClick(p, code, MaxClicks)
    \/ \E p \in Callers : RepoIncrementDb(p)
    \/ \E p \in Callers : RepoIncrSetClicks(p, "null")
    \/ \E p \in Callers : RepoIncrDelete(p, "null")

SpecDegraded == Init /\ [][NextDegraded]_vars

\* The cache fill of WarmupCache beside the creates, resolves, lookups by
\* locator and recorded clicks of one goroutine, over a Redis any call of
\* which can fail and whose entries can expire.
NextWarm ==
    \/ \E p \in Solo, rawURL \in PlainURLs : CreateShortURL(p, rawURL)
    \/ \E p \in Solo : GenerateShortCode(p)
    \/ \E p \in Solo : RepoCreateInsert(p)
    \/ \E p \in Solo : RepoCreateSetURL(p, "flaky")
    \/ \E p \in Solo : RepoCreateSetRev(p, "flaky")
    \/ \E p \in Solo, code \in Codes \cup {EmptyCode} : GetURL(p, code)
    \/ \E p \in Solo : RepoGetCache(p, "flaky")
    \/ \E p \in Solo : RepoGetDb(p)
    \/ \E p \in Solo : RepoGetSetURL(p, "flaky")
    \/ \E p \in Solo : RepoGetSetClicks(p, "flaky")
    \/ \E p \in Solo, code \in Codes \cup {EmptyCode} : RecordClick(p, code, FaultClicks)
    \/ \E p \in Solo : RepoIncrementDb(p)
    \/ \E p \in Solo : RepoIncrSetClicks(p, "flaky")
    \/ \E p \in Solo : RepoIncrDelete(p, "flaky")
    \/ \E p \in Solo, l \in Locators : GetByOriginalURL(p, l)
    \/ \E p \in Solo : RepoFindCache(p, "flaky")
    \/ \E p \in Solo : RepoFindDb(p)
    \/ \E p \in Solo : RepoFindSetRev(p, "flaky")
    \/ \E p \in Solo : RepoFindSetURL(p, "flaky")
    \/ WarmupQuery
    \/ WarmupRow("flaky")
    \/ \E c \in Codes : ExpireURL(c)

SpecWarm == Init /\ [][NextWarm]_vars

(***************************************************************************)
(* The short code generator.                                               *)
(***************************************************************************)
\* A byte slice one element short.
MakeShort(length) == [k \in 1..(length - 1) |-> Nul]

\* make([]byte, length)
MakeCode(length) == [k \in 1..length |-> Nul]

\* alphabetLen := big.NewInt(int64(len(alphabet)))
alphabetLen == Len(alphabet)

\* The values of rand.Int(rand.Reader, alphabetLen) the call can draw.
Draws(length) ==
    IF length <= ExhaustiveLength
    THEN 0..(alphabetLen - 1)
    ELSE {r \in 0..(alphabetLen - 1) :
            r % DrawStride = 0 \/ r = alphabetLen - 1}

\* The entry of GenerateShortCodeWithLength called by fn.
GenEnter(fn, length) ==
    /\ gen.pc \in {"idle", "done"}
    /\ gen' = [pc |-> "loop", fn |-> fn, length |-> length,
               code |-> MakeCode(length), i |-> 0, out |-> <<>>,
               err |-> NoError]
    /\ UNCHANGED <<storeVars, now, frame, res, created, recorded, rlVars,
                   poolVars, batch, batches, nullCall, nullWritten, warmup,
                   built, mem>>

\* utils.GenerateShortCodeWithLength(length)
GenerateShortCodeWithLength(length) ==
    GenEnter("GenerateShortCodeWithLength", length)

\* utils.GenerateShortCode()
UtilsGenerateShortCode == GenEnter("GenerateShortCode", DefaultShortCodeLength)

\* One round of the loop: rand.Int and code[i] = alphabet[randomIndex], or
\* the return of rand.Int's error.
GenDraw ==
    /\ gen.pc = "loop"
    /\ gen.i < Len(gen.code)
    /\ \/ \E randomIndex \in Draws(gen.length) :
            gen' = [gen EXCEPT !.code[gen.i + 1] = alphabet[randomIndex + 1],
                               !.i = gen.i + 1]
       \/ gen' = [gen EXCEPT !.pc = "done", !.code = <<>>, !.i = 0,
                             !.out = <<>>, !.err = RandError]
    /\ UNCHANGED <<storeVars, now, frame, res, created, recorded, rlVars,
                   poolVars, batch, batches, nullCall, nullWritten, warmup,
                   built, mem>>

\* return string(code), nil
GenReturn ==
    /\ gen.pc = "loop"
    /\ gen.i = Len(gen.code)
    /\ gen' = [gen EXCEPT !.pc = "done", !.code = <<>>, !.i = 0,
                          !.out = gen.code, !.err = NoError]
    /\ UNCHANGED <<storeVars, now, frame, res, created, recorded, rlVars,
                   poolVars, batch, batches, nullCall, nullWritten, warmup,
                   built, mem>>

\* The calls of the generator by one goroutine.
NextGen ==
    \/ \E length \in 0..MaxCodeLength : GenerateShortCodeWithLength(length)
    \/ UtilsGenerateShortCode
    \/ GenDraw
    \/ GenReturn

SpecGen == Init /\ [][NextGen]_vars

(***************************************************************************)
(* The properties.                                                         *)
(***************************************************************************)
\* C1: no two rows of table urls ever share a short code; a creator whose
\* insert meets a row with its candidate code leaves the table unchanged,
\* gets ErrShortCodeExists and goes on to generate another code, unless this
\* was its last attempt or the driver failed.
C1_UniqueShortCode ==
    /\ [](\A r1, r2 \in urls : r1.short_code = r2.short_code => r1 = r2)
    /\ [][\A p \in Callers :
            (/\ frame[p].pc = "insert"
             /\ frame'[p] # frame[p]
             /\ ShortCodeConflict(urls, frame[p].shortCode))
            => /\ urls' = urls
               /\ \/ frame'[p].pc = "idle" /\ res'[p].Err = DatabaseError
                  \/ /\ frame'[p].pc = "generate"
                     /\ frame'[p].lastErr = ErrShortCodeExists
                     /\ frame'[p].attempt = frame[p].attempt + 1
                  \/ /\ frame[p].attempt = maxRetries - 1
                     /\ frame'[p].pc = "idle"
                     /\ res'[p].Err = GenerationError(ErrShortCodeExists)]_vars

\* C1 witness: a creator that lost the race on one code has inserted its
\* record under another code.
C1_LoserInserted ==
    \E p \in Callers :
      /\ frame[p].pc = "createSetURL"
      /\ frame[p].lastErr = ErrShortCodeExists
      /\ Cardinality(urls) = 2

\* C3: an insert is only attempted with attempt < maxRetries; an attempt
\* that ends in a conflict is followed by the generation of another code
\* while attempts are left; an attempt that neither conflicts nor fails in
\* the driver inserts the record, and the call then returns that record
\* with the code of this attempt.
C3_RetryUntilInserted ==
    [][\A p \in Callers :
         /\ frame[p].pc = "insert" => frame[p].attempt < maxRetries
         /\ (/\ frame[p].pc = "insert"
             /\ frame'[p] # frame[p]
             /\ ~(frame'[p].pc = "idle" /\ res'[p].Err = DatabaseError))
            => IF ShortCodeConflict(urls, frame[p].shortCode)
               THEN frame[p].attempt + 1 < maxRetries
                      => /\ frame'[p].pc = "generate"
                         /\ frame'[p].attempt = frame[p].attempt + 1
               ELSE /\ frame'[p].pc = "createSetURL"
                    /\ frame'[p].url.ShortCode = frame[p].shortCode
                    /\ \E row \in urls' \ urls : Scan(row) = frame'[p].url
         /\ (frame[p].pc = "generate" /\ frame'[p].pc = "insert")
            => frame'[p].attempt = frame[p].attempt
         /\ (frame[p].pc = "createSetURL" /\ frame'[p] # frame[p])
            => frame'[p].pc = "createSetRev" /\ frame'[p].url = frame[p].url
         /\ (frame[p].pc = "createSetRev" /\ frame'[p] # frame[p])
            => /\ res'[p].Op = "create"
               /\ res'[p].Err = NoError
               /\ res'[p].URL = frame[p].url]_vars

\* C3 witness: after one or more attempts that all ended in a conflict, an
\* attempt has inserted its record and the call is about to return it.
C3_InsertedAfterConflicts ==
    \E p \in Callers :
      /\ frame[p].pc = "createSetRev"
      /\ frame[p].attempt >= 1
      /\ frame[p].allConflict

\* C4: when the last of maxRetries attempts ends in a conflict as all the
\* attempts before it did, the call returns a BusinessError with code
\* SHORT_CODE_GENERATION, which is neither the conflict error nor the
\* storage error, and it has written nothing to the table or the cache.
C4_GenerationExhausted ==
    [][\A p \in Callers :
         (/\ frame[p].pc = "insert"
          /\ frame[p].attempt = maxRetries - 1
          /\ frame[p].allConflict
          /\ ShortCodeConflict(urls, frame[p].shortCode)
          /\ frame'[p] # frame[p]
          /\ ~(frame'[p].pc = "idle" /\ res'[p].Err = DatabaseError))
         => /\ frame'[p].pc = "idle"
            /\ res'[p].Op = "create"
            /\ res'[p].Err.Type = "BusinessError"
            /\ res'[p].Err.Code = "SHORT_CODE_GENERATION"
            /\ res'[p].Err # ErrShortCodeExists
            /\ res'[p].Err.Code # DatabaseError.Code
            /\ res'[p].URL = NilURL
            /\ ~frame[p].wrote
            /\ storeVars' = storeVars]_vars

\* C4 witness: a create call has returned the generation-exhausted error
\* after a conflict in its last attempt.
C4_Exhausted ==
    \E p \in Callers :
      /\ res[p].Op = "create"
      /\ res[p].Err = GenerationError(ErrShortCodeExists)
      /\ Cardinality(urls) = NumCodes

C6_ClicksNeverDrop ==
    \A p \in Callers :
      (res[p].Op = "resolve" /\ res[p].Err = NoError /\ res[p].Floor >= 0)
      => res[p].URL.ClickCount >= res[p].Floor

\* C7: in the sequential scenario a successful resolve returns exactly the
\* number of RecordClick calls of the code that returned nil: 0 directly
\* after the create, n after n recorded clicks.
C7_ExactClicks ==
    \A p \in Callers :
      (res[p].Op = "resolve" /\ res[p].Err = NoError)
      => res[p].URL.ClickCount = recorded[res[p].Arg]

\* C7 witness: the resolve after three recorded clicks has returned.
C7_ThreeClicks ==
    \E p \in Callers :
      /\ res[p].Op = "resolve"
      /\ res[p].Err = NoError
      /\ recorded[res[p].Arg] = 3
      /\ res[p].URL.ClickCount = 3

\* C8: the expiry of a live rate-limit counter is the instant of its
\* creation plus the window; no later increment moves it.
C8_ExpiryFixedAtCreation ==
    (rlCount # {} /\ rlTTL # {}) => TheValue(rlTTL) = TheValue(rlStart) + Window

\* C9: a request the limiter counted is rejected exactly when its count
\* exceeds the limit, and a request counted once the window has elapsed
\* since the counter's creation gets count 1.
C9_WindowResets ==
    \A r \in Callers :
      (rlFrame[r].pc = "idle" /\ rlFrame[r].decision # "none" /\ ~rlFrame[r].err)
      => /\ rlFrame[r].decision = "abort" <=> rlFrame[r].count > Limit
         /\ rlFrame[r].elapsed => rlFrame[r].count = 1

\* C10: a request whose IncrementRateLimit returned an error is passed on
\* to the next handler.
C10_FailOpen ==
    \A r \in Callers :
      (rlFrame[r].pc = "idle" /\ rlFrame[r].err) => rlFrame[r].decision = "next"

\* C10 witness: a request met a limiter error while the client's counter
\* stood above the limit, and was passed on.
C10_PassedOverLimit ==
    \E r \in Callers :
      /\ rlFrame[r].pc = "idle"
      /\ rlFrame[r].err
      /\ rlFrame[r].decision = "next"
      /\ rlCount # {}
      /\ TheValue(rlCount) > Limit

\* C11: the job queue never holds more than Capacity jobs, and every AddJob
\* call returns at once with one of two outcomes: with room in the queue the
\* job is appended at its end, with the queue full the drop is logged and
\* the queue is left as it was.
C11_BoundedNonBlocking ==
    /\ [](Len(jobQueue) <= Capacity)
    /\ [][offered' = offered + 1
           => IF Len(jobQueue) < Capacity
              THEN /\ \E code \in Codes : jobQueue' = Append(jobQueue, code)
                   /\ dropped' = dropped
                   /\ faulted' = faulted
              ELSE /\ jobQueue' = jobQueue
                   /\ dropped' = dropped + 1
                   /\ faulted' = faulted]_vars

\* C12: a BatchIncrementClickCount call either returns nil, and then every
\* entry of its map has a row whose click_count has grown by the entry's
\* amount, or returns an error; and no step of the call other than the
\* commit that makes it return nil changes the table.
C12_AllOrNothing ==
    [][batch' # batch
       => IF batch'.pc = "idle" /\ batch'.err = NoError
          THEN \A shortCode \in DOMAIN batch.updates :
                 \E old \in urls, new \in urls' :
                   /\ old.short_code = shortCode
                   /\ new.id = old.id
                   /\ new.click_count = old.click_count + batch.updates[shortCode]
          ELSE urls' = urls]_vars

\* C13: a resolve of a short code that has no row in table urls never takes
\* a record from the cache; once its SELECT has found no row it returns no
\* record and an error that errors.Is ErrURLNotFound and is no BusinessError
\* (a driver failure of the SELECT itself is returned as DATABASE_ERROR);
\* and no step of it writes to the table or to the cache.
C13_NotFound ==
    [][\A p \in Callers :
         (/\ frame[p].op = "resolve"
          /\ frame'[p] # frame[p]
          /\ SelectByShortCode(urls, frame[p].shortCode) = {})
         => /\ storeVars' = storeVars
            /\ frame[p].pc = "getCache" => frame'[p].pc = "getDb"
            /\ frame[p].pc = "getDb"
               => /\ frame'[p].pc = "idle"
                  /\ res'[p].Op = "resolve"
                  /\ res'[p].URL = NilURL
                  /\ \/ res'[p].Err = DatabaseError
                     \/ /\ "ErrURLNotFound" \in res'[p].Err.Is
                        /\ res'[p].Err.Type # "BusinessError"
                        /\ res'[p].Err.Code # DatabaseError.Code]_vars

\* C13 witness: a resolve of a code without a row has returned not-found
\* after its cache read failed, while the table holds another code.
C13_MissingAfterCacheError ==
    \E p \in Callers :
      /\ res[p].Op = "resolve"
      /\ res[p].CacheFailed
      /\ "ErrURLNotFound" \in res[p].Err.Is
      /\ SelectByShortCode(urls, res[p].Arg) = {}
      /\ urls # {}

\* C14: RecordClick of the empty short code returns a ValidationError
\* without calling the repository; RecordClick of a short code that has no
\* row returns an error that errors.Is ErrURLNotFound once its lookup has
\* found no row (a driver failure of the lookup is returned as
\* DATABASE_ERROR) and never reaches the UPDATE; no step of either changes
\* the table.
C14_NoSuchClick ==
    /\ [](\A p \in Callers :
            /\ (frame[p].op = "record") => frame[p].shortCode # EmptyCode
            /\ (res[p].Op = "record" /\ res[p].Arg = EmptyCode)
               => res[p].Err.Type = "ValidationError")
    /\ [][\A p \in Callers :
            /\ (res'[p] # res[p] /\ res'[p].Op = "record"
                /\ res'[p].Arg = EmptyCode)
               => frame[p].pc = "idle" /\ storeVars' = storeVars
            /\ (/\ frame[p].op = "record"
                /\ frame'[p] # frame[p]
                /\ ~\E row \in urls : row.short_code = frame[p].shortCode)
               => /\ urls' = urls
                  /\ frame[p].pc \in {"getCache", "getDb"}
                  /\ frame[p].pc = "getCache" => frame'[p].pc = "getDb"
                  /\ frame[p].pc = "getDb"
                     => /\ frame'[p].pc = "idle"
                        /\ res'[p].Op = "record"
                        /\ \/ res'[p].Err = DatabaseError
                           \/ "ErrURLNotFound" \in res'[p].Err.Is]_vars

\* C14 witness: RecordClick of a code without a row has returned not-found
\* while the table holds the record of another code, whose click count is
\* still 0.
C14_ClickOnMissingCode ==
    \E p \in Callers :
      /\ res[p].Op = "record"
      /\ "ErrURLNotFound" \in res[p].Err.Is
      /\ ~\E row \in urls : row.short_code = res[p].Arg
      /\ \E row \in urls : row.click_count = 0

\* C15: whatever was written to the NullCache before, Set, SetWithTTL,
\* SetString and Delete return nil, Get and GetString return ErrCacheMiss
\* (GetString with the empty string, Get with *dest untouched), Exists
\* returns false without an error, and HealthCheck returns nil.
C15_NullCacheKeepsNothing ==
    /\ nullCall.op \in {"Set", "SetWithTTL", "SetString", "Delete"}
       => nullCall.err = NoError
    /\ nullCall.op \in {"Get", "GetString"}
       => /\ nullCall.err = ErrCacheMiss
          /\ nullCall.err # NoError
          /\ nullCall.str = ""
          /\ nullCall.dest = "zero"
    /\ nullCall.op = "Exists" => nullCall.exists = FALSE /\ nullCall.err = NoError
    /\ nullCall.op = "HealthCheck" => nullCall.err = NoError

\* C15 witness: a Get of a key that was Set before, and not deleted since,
\* has returned the cache miss.
C15_MissAfterSet ==
    /\ nullCall.op = "Get"
    /\ nullCall.keys \subseteq nullWritten
    /\ nullCall.err = ErrCacheMiss

C17_CachedLocatorIsDurable ==
    \A c \in Codes :
      cacheURL[c] # {}
      => \E row \in urls :
           /\ row.short_code = c
           /\ TheValue(cacheURL[c]).short_code = c
           /\ TheValue(cacheURL[c]).id = row.id
           /\ TheValue(cacheURL[c]).original_url = row.original_url

\* C17 witness: the cache holds a mapping entry whose click count is older
\* than the one of its row.
C17_StaleCountSameLocator ==
    \E c \in Codes, row \in urls :
      /\ cacheURL[c] # {}
      /\ row.short_code = c
      /\ TheValue(cacheURL[c]).original_url = row.original_url
      /\ TheValue(cacheURL[c]).click_count < row.click_count

\* C18: no step lowers the click_count of a row: every row is still there
\* after the step, with a click_count at least as high.
C18_ClickCountMonotonic ==
    [][\A old \in urls :
         \E new \in urls' :
           /\ new.id = old.id
           /\ new.click_count >= old.click_count]_vars

\* C19: a CreateShortURL call whose locator is empty, has no http or https
\* scheme, has no host or is longer than 2048 characters returns a
\* ValidationError and no record in its first step, which leaves the table,
\* the id sequence and the cache as they are; no call with such a locator
\* ever gets to generate a code or to insert.
C19_InvalidRejected ==
    [][LET Malformed(rawURL) ==
             \/ rawURL = <<>>
             \/ Scheme(rawURL) \notin {"http", "https"}
             \/ Host(rawURL) = ""
             \/ StrLen(rawURL) > 2048
       IN  /\ \A p \in Callers :
                (frame'[p].op = "create" /\ frame'[p].pc # "idle")
                => ~Malformed(frame'[p].reqURL)
           /\ \A p \in Callers, rawURL \in RequestURLs :
                (Malformed(rawURL) /\ CreateShortURL(p, rawURL))
                => /\ frame'[p].pc = "idle"
                   /\ res'[p].Op = "create"
                   /\ res'[p].Err.Type = "ValidationError"
                   /\ res'[p].URL = NilURL
                   /\ storeVars' = storeVars]_vars

\* C19 witness: a create has just been refused with a ValidationError while
\* the table already holds a record of an earlier create.
C19_RefusedBesideRecord ==
    \E p \in Callers :
      /\ res[p].Op = "create"
      /\ res[p].Err.Type = "ValidationError"
      /\ frame[p].pc = "idle"
      /\ urls # {}

\* C20: the alphabet is the 56 letters and digits other than 0, 1, l, o, I
\* and O; a code GenerateShortCodeWithLength(n) returns for n >= 1 has
\* exactly n symbols, each of the alphabet; a code GenerateShortCode returns
\* has 6 symbols.
C20_CodeOverAlphabet ==
    LET Lower == {"a", "b", "c", "d", "e", "f", "g", "h", "i", "j", "k", "l",
                  "m", "n", "o", "p", "q", "r", "s", "t", "u", "v", "w", "x",
                  "y", "z"}
        Upper == {"A", "B", "C", "D", "E", "F", "G", "H", "I", "J", "K", "L",
                  "M", "N", "O", "P", "Q", "R", "S", "T", "U", "V", "W", "X",
                  "Y", "Z"}
        Digit == {"0", "1", "2", "3", "4", "5", "6", "7", "8", "9"}
        Unambiguous ==
          (Lower \cup Upper \cup Digit) \ {"0", "1", "l", "o", "I", "O"}
        Symbols == {alphabet[k] : k \in 1..Len(alphabet)}
    IN  /\ Len(alphabet) = 56
        /\ Symbols = Unambiguous
        /\ Cardinality(Symbols) = 56
        /\ (gen.pc = "done" /\ gen.err = NoError /\ gen.length >= 1)
           => /\ Len(gen.out) = gen.length
              /\ \A k \in 1..Len(gen.out) : gen.out[k] \in Unambiguous
        /\ (gen.pc = "done" /\ gen.err = NoError
              /\ gen.fn = "GenerateShortCode")
           => Len(gen.out) = 6

\* C20 witness: GenerateShortCode has returned a code that begins with the
\* last symbol of the alphabet and ends with the first.
C20_SixSymbolsReturned ==
    /\ gen.pc = "done"
    /\ gen.fn = "GenerateShortCode"
    /\ gen.err = NoError
    /\ Len(gen.out) = 6
    /\ gen.out[1] = "9"
    /\ gen.out[6] = "a"

\* C21: a step of Create's INSERT either inserts the row, or meets a
\* short-code conflict and goes on with the loop, or is a failure of the
\* store: then the call returns in that very step, with no further attempt,
\* a DATABASE_ERROR that carries the driver's error and no record, and the
\* call has written nothing to the table or the cache.  A create returns
\* DATABASE_ERROR from nowhere else.
C21_StorageFailureEndsCreate ==
    [][\A p \in Callers :
         /\ (frame[p].pc = "insert" /\ frame'[p] # frame[p])
            => LET f == frame[p]
                   taken == \E row \in urls : row.short_code = f.url.ShortCode
               IN  \/ /\ ~taken
                      /\ urls' # urls
                      /\ frame'[p].pc = "createSetURL"
                   \/ /\ taken
                      /\ storeVars' = storeVars
                      /\ IF f.attempt + 1 < maxRetries
                         THEN frame'[p].pc = "generate"
                         ELSE /\ frame'[p].pc = "idle"
                              /\ res'[p].Err.Code = "SHORT_CODE_GENERATION"
                   \/ /\ frame'[p].pc = "idle"
                      /\ res'[p].Op = "create"
                      /\ res'[p].Err.Type = "BusinessError"
                      /\ res'[p].Err.Code = "DATABASE_ERROR"
                      /\ "sql" \in res'[p].Err.Is
                      /\ res'[p].URL = NilURL
                      /\ ~f.wrote
                      /\ storeVars' = storeVars
                      /\ created' = created
         /\ (/\ res'[p] # res[p]
             /\ res'[p].Op = "create"
             /\ res'[p].Err.Code = "DATABASE_ERROR")
            => frame[p].pc = "insert" /\ storeVars' = storeVars]_vars

\* C21 witness: a create has returned DATABASE_ERROR while another create
\* is about to insert and the table holds a record.
C21_FailedInsertReturned ==
    \E p, q \in Callers :
      /\ res[p].Op = "create"
      /\ res[p].Err.Code = "DATABASE_ERROR"
      /\ frame[p].pc = "idle"
      /\ frame[q].pc = "insert"
      /\ urls # {}

\* C22: the steps of a resolve follow the cache-aside read protocol.  The
\* probe of the mapping cache either hits and the call returns the cached
\* record at once, with no read of the table, or it misses or fails and the
\* call goes on to the table.  The read of the table returns not-found or
\* a storage error and writes nothing, or it yields the durable row; the
\* call then writes that record to the mapping cache, then sets the cache
\* counter to the click count it read, and returns the record (a write the
\* backend refuses is noted as a cache failure and changes nothing).
C22_CacheAsideRead ==
    [][\A p \in Callers :
         (frame[p].op = "resolve" /\ frame[p].pc # "idle" /\ frame'[p] # frame[p])
         => LET f == frame[p]
                c == f.shortCode
            IN  CASE f.pc = "getCache" ->
                       /\ storeVars' = storeVars
                       /\ \/ /\ cacheURL[c] # {}
                             /\ frame'[p].pc = "idle"
                             /\ res'[p].Err = NoError
                             /\ \E j \in cacheURL[c] :
                                  /\ res'[p].URL.ShortCode = j.short_code
                                  /\ res'[p].URL.OriginalURL = j.original_url
                                  /\ res'[p].URL.ClickCount = j.click_count
                          \/ /\ frame'[p].pc = "getDb"
                             /\ cacheURL[c] = {} \/ frame'[p].cacheFailed
                  [] f.pc = "getDb" ->
                       /\ storeVars' = storeVars
                       /\ \/ \E row \in urls :
                               /\ row.short_code = c
                               /\ frame'[p].pc = "getSetURL"
                               /\ frame'[p].url.ShortCode = c
                               /\ frame'[p].url.OriginalURL = row.original_url
                               /\ frame'[p].url.ClickCount = row.click_count
                          \/ /\ ~\E row \in urls : row.short_code = c
                             /\ frame'[p].pc = "idle"
                             /\ "ErrURLNotFound" \in res'[p].Err.Is
                          \/ /\ frame'[p].pc = "idle"
                             /\ res'[p].Err.Code = "DATABASE_ERROR"
                  [] f.pc = "getSetURL" ->
                       /\ frame'[p].pc = "getSetClicks"
                       /\ frame'[p].url = f.url
                       /\ UNCHANGED <<urls, nextId, cacheRev, cacheClicks>>
                       /\ \/ /\ cacheURL'[c] # {}
                             /\ \A j \in cacheURL'[c] : Unmarshal(j) = f.url
                             /\ \A d \in Codes \ {c} : cacheURL'[d] = cacheURL[d]
                          \/ /\ cacheURL' = cacheURL
                             /\ frame'[p].cacheFailed
                  [] f.pc = "getSetClicks" ->
                       /\ frame'[p].pc = "idle"
                       /\ res'[p].Err = NoError
                       /\ res'[p].URL = f.url
                       /\ UNCHANGED <<urls, nextId, cacheRev, cacheURL>>
                       /\ \/ cacheClicks' =
                               [cacheClicks EXCEPT ![c] = {f.url.ClickCount}]
                          \/ /\ cacheClicks' = cacheClicks
                             /\ res'[p].CacheFailed
                  [] OTHER -> FALSE]_vars

\* C22 witness: a resolve that missed the cache has returned a record with
\* clicks on it, and the mapping cache and the cache counter now hold what
\* it read.
C22_MissBackfilled ==
    \E p \in Callers :
      /\ res[p].Op = "resolve"
      /\ res[p].Err = NoError
      /\ ~res[p].CacheFailed
      /\ res[p].URL.ClickCount >= 1
      /\ cacheURL[res[p].Arg] = {Marshal(res[p].URL)}
      /\ cacheClicks[res[p].Arg] = {res[p].URL.ClickCount}

C24_CounterNeverRegresses ==
    [][\A c \in Codes :
         (cacheClicks[c] # {} /\ cacheClicks'[c] # {})
         => \A v \in cacheClicks[c], w \in cacheClicks'[c] : w >= v]_vars

\* C25: a rate-limit counter never exists without an expiry once the
\* pipelines that touched it have ended, whether they succeeded or failed
\* (the statement asks this of the states between the two commands of a
\* pipeline as well).
C25_CountHasExpiry ==
    (\A r \in Callers : rlFrame[r].pc # "expire")
    => (rlCount # {} => rlTTL # {})

\* C26: a GetByOriginalURL(l) that returns ErrURLNotFound was called when
\* no record had locator l; one that returns a record returns a record of
\* the table whose locator is l and which is no older than the newest
\* record of l whose create had returned when the call was made.
C26_NewestOfLocator ==
    [][\A p \in Callers :
         (res'[p] # res[p] /\ res'[p].Op = "find")
         => LET f == frame[p] IN
            /\ "ErrURLNotFound" \in res'[p].Err.Is
               => ~\E row \in urls : row.original_url = f.sanitizedURL
            /\ res'[p].Err = NoError
               => /\ res'[p].URL.OriginalURL = f.sanitizedURL
                  /\ res'[p].URL.CreatedAt >= f.newestAt
                  /\ \E row \in urls :
                       /\ row.short_code = res'[p].URL.ShortCode
                       /\ row.original_url = f.sanitizedURL]_vars

C28_JobOutcomeUnseen ==
    [][/\ \A p \in Callers \ Workers :
             /\ handler'[p] # handler[p]
             /\ handler[p].pc = "resolve"
             /\ res[p].Err = NoError
             /\ handler'[p].job \in {"accepted", "dropped"}
             => /\ handler'[p].pc = "idle"
                /\ handler'[p].status = 302
                /\ handler'[p].location = res[p].URL.OriginalURL
       /\ (\E w \in Workers : frame'[w] # frame[w] \/ res'[w] # res[w])
             => handler' = handler
       /\ \A w \in Workers :
             /\ frame[w].op = "record"
             /\ frame[w].pc # "idle"
             /\ frame'[w].pc = "idle"
             /\ res'[w].Err # NoError
             => /\ jobQueue' = jobQueue
                /\ offered' = offered
                /\ frame'[w] = IdleFrame
                /\ workerUp'[w]
                /\ ~crashed'
                /\ handler' = handler]_vars

\* C28 witness: a worker whose job failed is idle with the next job waiting,
\* and the request goroutine holds a 302 response.
C28_FailedJobWorkerReady ==
    \E w \in Workers, p \in Callers \ Workers :
      /\ res[w].Op = "record"
      /\ res[w].Err # NoError
      /\ frame[w].pc = "idle"
      /\ workerUp[w]
      /\ ~crashed
      /\ jobQueue # <<>>
      /\ handler[p].pc = "idle"
      /\ handler[p].status = 302
      /\ handler[p].location # <<>>


\* C29: once Shutdown has been called, it returns sooner or later, and by
\* then every worker has stopped.
C29_ShutdownReturns ==
    (shutdownPc # "none") ~>
       (shutdownPc = "returned" /\ \A w \in Workers : ~workerUp[w])


\* C30: whenever a step raises the durable click_count of a record, the
\* cache counter of its code already shows at least the new count: the
\* cache reflects a click no later than the table does.
C30_CacheCounterFirst ==
    [][\A row \in urls, next \in urls' :
         next.id = row.id /\ next.click_count > row.click_count
         => \E v \in cacheClicks'[row.short_code] : v >= next.click_count]_vars


\* C31: under one KeyBuilder, two keys built by different methods, or by one
\* method from different arguments, are different strings (no argument
\* holding a ':').
C31_KeysNeverCollide ==
    LET a == built.keys[1]
        b == built.keys[2]
    IN  (a.method # "none" /\ b.method # "none"
         /\ (a.method # b.method \/ a.arg # b.arg))
        => a.key # b.key

\* C31 witness: under a namespace, the mapping key and the counter key of
\* the same code were built, and the two differ.
C31_SameCodeTwoPurposes ==
    /\ built.namespace # <<>>
    /\ built.keys[1].method = "URL"
    /\ built.keys[2].method = "Clicks"
    /\ built.keys[1].arg = built.keys[2].arg
    /\ Len(built.keys[1].arg) = MaxPartLen


\* C40: the requests the in-process limiter has let through for one client
\* at instants less than a window apart are never more than maxRequests;
\* every one of them that is not yet a window old is in the client's log
\* once no goroutine is inside the middleware; and the runtime never ends
\* the process for a concurrent use of the map.
C40_FallbackLimitHolds ==
    /\ ~mem.fatal
    /\ \A c \in Clients :
         LET log == mem.admitted[c] IN
         /\ \A i \in 1..Len(log) :
              Cardinality({j \in 1..Len(log) :
                             log[j] <= log[i] /\ log[i] - log[j] < Window}) <= Limit
         /\ (\A g \in Callers : mem.frames[g].pc = "idle")
            => \A t \in 0..MaxTime :
                 now - t < Window
                 => Cardinality({j \in 1..Len(log) : log[j] = t})
                    <= Cardinality({j \in 1..Len(MapGet(mem.requests, c)) :
                                      MapGet(mem.requests, c)[j] = t})


\* C38 as stated: a RecordClick call whose durable increment failed returns
\* the error and has applied no write and no delete to the cache.
C38_FailedClickLeavesCache ==
    [][\A p \in Callers :
         (/\ frame[p].op = "record"
          /\ frame[p].pc = "increment"
          /\ res'[p] # res[p]
          /\ res'[p].Err # NoError)
         => /\ res'[p].Err \in {DatabaseError, ErrURLNotFound}
            /\ ~frame[p].wrote
            /\ <<cacheURL, cacheRev, cacheClicks>>' = <<cacheURL, cacheRev, cacheClicks>>]_vars

\* C38, amended: when the durable increment fails, IncrementClickCount
\* returns the error at once and writes and deletes nothing in the cache;
\* its cache calls run only after an UPDATE that changed the table.  (The
\* lookup that RecordClick runs before it may have written the mapping entry
\* and the counter of the code on a cache miss.)
C38_FailedIncrementLeavesCache ==
    [][\A p \in Callers :
         /\ (/\ frame[p].op = "record"
             /\ frame[p].pc = "increment"
             /\ res'[p] # res[p]
             /\ res'[p].Err # NoError)
            => /\ res'[p].Err \in {DatabaseError, ErrURLNotFound}
               /\ frame'[p].pc = "idle"
               /\ <<cacheURL, cacheRev, cacheClicks>>' = <<cacheURL, cacheRev, cacheClicks>>
         /\ (frame[p].pc = "increment" /\ frame'[p].pc = "incrSetClicks")
            => /\ urls' # urls
               /\ res'[p] = res[p]]_vars

\* C38 witness: the one goroutine's RecordClick returned the storage error
\* of its increment (its lookup met no cache error and the code's entries
\* are in the cache, so that the lookup did not fail), the count unchanged.
C38_IncrementFailedAfterLookup ==
    \E p \in Solo :
      /\ frame[p].pc = "idle"
      /\ res[p].Op = "record"
      /\ res[p].Err = DatabaseError
      /\ ~res[p].CacheFailed
      /\ cacheURL[res[p].Arg] # {}
      /\ cacheClicks[res[p].Arg] # {}
      /\ \E row \in urls : row.short_code = res[p].Arg /\ row.click_count = 0


\* C39: when a BatchIncrementClickCount call returns nil, every short code
\* of its map had a row when the transaction committed, and the click_count
\* of that row is then larger by the amount given for the code: no call
\* reports success for an increment it has dropped.
C39_NoIncrementLost ==
    [][(batch.pc # "idle" /\ batch'.pc = "idle" /\ batch'.err = NoError)
       => \A shortCode \in DOMAIN batch.updates :
            /\ \E row \in urls : row.short_code = shortCode
            /\ \A row \in urls :
                 row.short_code = shortCode
                 => \E new \in urls' :
                      /\ new.id = row.id
                      /\ new.click_count - row.click_count
                           = batch.updates[shortCode]]_vars


\* C36: no AddJob call of a redirect request panics, whatever the pool's
\* state when it is made: every request that resolved its code is answered
\* with its job accepted or dropped.
C36_AddJobNeverFaults ==
    /\ faulted = 0
    /\ \A p \in Callers \ Workers :
         (handler[p].pc = "idle" /\ handler[p].job # "none")
         => /\ handler[p].job \in {"accepted", "dropped"}
            /\ handler[p].status = 302


\* C35: a worker that starts a RecordClick call has taken the job at the
\* head of the queue, which AddJob put there, and it alone has taken it; and
\* no worker ever receives a job that was not enqueued, which after
\* close(p.jobQueue) is the zero ClickJob whose handling ends the process.
C35_OnlyEnqueuedJobsHandled ==
    [][/\ \A w \in Workers :
            (frame[w].pc = "idle" /\ frame'[w].pc # "idle")
            => /\ jobQueue # <<>>
               /\ frame'[w].op = "record"
               /\ frame'[w].shortCode = Head(jobQueue)
               /\ jobQueue' = Tail(jobQueue)
               /\ \A v \in Workers \ {w} : frame'[v] = frame[v]
       /\ Len(jobQueue') < Len(jobQueue)
            => \E w \in Workers : frame[w].pc = "idle" /\ frame'[w].pc # "idle"
       /\ ~crashed']_vars


C33_CacheNeverAhead ==
    \A row \in urls :
      /\ \A entry \in cacheURL[row.short_code] :
           Unmarshal(entry).ClickCount <= row.click_count
      /\ \A count \in cacheClicks[row.short_code] : count <= row.click_count


\* C34: in every state every mapping entry of the cache is kept under the
\* code of a record of table urls and holds that code; and whenever
\* ExistsByShortCode returns without an error, from the cache or from the
\* table, its answer is whether the table holds a record of the code.
C34_CachedCodesExist ==
    /\ [](\A c \in Codes :
            \A entry \in cacheURL[c] :
              /\ Unmarshal(entry).ShortCode = c
              /\ \E row \in urls : row.short_code = c)
    /\ [][\A p \in Callers :
            (/\ res'[p] # res[p]
             /\ res'[p].Op = "exists"
             /\ res'[p].Err = NoError)
            => res'[p].Exists = (\E row \in urls : row.short_code = res'[p].Arg)]_vars

\* C34 witness: ExistsByShortCode has answered true for a code whose mapping
\* entry is in the cache, with no cache error on the way.
C34_ExistsAnsweredFromCache ==
    \E p \in Callers \ Solo :
      /\ frame[p].pc = "idle"
      /\ res[p].Op = "exists"
      /\ res[p].Err = NoError
      /\ res[p].Exists
      /\ ~res[p].CacheFailed
      /\ cacheURL[res[p].Arg] # {}


\* C32: calls under way going on and cache entries meeting their TTL, if
\* from some point on no click is being recorded, then from some point on
\* every mapping entry of the cache and every record a resolve is about to
\* return holds the click_count of the table, every resolve that returns a
\* record returns that click_count, and no step changes it any more.
C32_CountersConverge ==
    <>[](\A p \in Callers : frame[p].op # "record")
    => /\ <>[](\A row \in urls :
                 /\ \A entry \in cacheURL[row.short_code] :
                      Unmarshal(entry).ClickCount = row.click_count
                 /\ \A p \in Callers :
                      (/\ frame[p].op = "resolve"
                       /\ frame[p].pc \in {"getSetURL", "getSetClicks"}
                       /\ frame[p].shortCode = row.short_code)
                      => frame[p].url.ClickCount = row.click_count)
       /\ <>[][/\ \A p \in Callers :
                    (/\ frame[p].op = "resolve"
                     /\ frame'[p].pc = "idle"
                     /\ res'[p].Err = NoError)
                    => \E row \in urls :
                         /\ row.short_code = res'[p].Arg
                         /\ row.click_count = res'[p].URL.ClickCount
               /\ \A row \in urls :
                    \E new \in urls' :
                      new.id = row.id /\ new.click_count = row.click_count]_vars

\* C32 witness: with the click recorded and no call under way, the cache
\* holds a mapping entry with an older click count than the table.
C32_StaleEntryAfterClicks ==
    /\ \A p \in Callers : frame[p].pc = "idle"
    /\ \E row \in urls :
         /\ row.click_count = LiveClicks
         /\ \E entry \in cacheURL[row.short_code] :
              Unmarshal(entry).ClickCount < row.click_count

====
